---- MODULE Spec2Model ----
(***************************************************************************)
(* Grid spatial index of pylidar: pylidar/lidarformats/gridindexutils.py   *)
(* (CreateSpatialIndex, BuildSpatialIndexInternal, convertIdxBool1D/2D,    *)
(* convertSPDIdxToReadIdxAndMaskInfo, getSlicesForExtent), the index      *)
(* object of pylidar/lidarformats/spdv4_index.py that reads and writes     *)
(* through them, and the bounding box filter of pylidar/toolbox/spatial.py.*)
(*                                                                         *)
(* A numpy array is a record [shape, data]: shape is the tuple of axis     *)
(* lengths and data maps every index tuple (0-based, one entry per axis)   *)
(* to the element.  World coordinates are integers in units of half a bin  *)
(* (binSize = 2 units), so that a coordinate can lie on a bin edge or      *)
(* strictly inside a bin and numpy.floor has something to round.           *)
(***************************************************************************)
EXTENDS Integers, Sequences, FiniteSets, TLC

(* ------------------------------ bounds -------------------------------- *)
\* most elements in one coordinate batch: with coordinates at bin centres or
\* just outside the grid (MaxPts), and with coordinates at every half bin,
\* bin edges included (MaxPtsFine)
MaxPts == 3
MaxPtsFine == 2
\* largest grid of CreateSpatialIndex
MaxRows == 2
MaxCols == 2
\* most bins (nRows * nCols) of such a grid
MaxBins == 4
\* converter inputs: largest dataset, largest per-bin count, longest 1d index,
\* and most bins with a count above zero
MaxOut == 4
MaxCount == 2
MaxLen1D == 3
MaxNonEmpty == 3
\* slicer inputs: largest grid dimension (beside the 10 x 10 grid of the
\* scenarios), largest overlap, and how many bins off the grid a window may
\* start or end
MaxSliceDim == 3
MaxOverlap == 2
MaxOff == 1
\* the index object: most pulses of a file that is read, most returns of a
\* pulse, largest overlap of a query, and most queries made on one object
MaxFilePulses == 2
MaxReturns == 2
MaxMargin == 1
MaxQueries == 2
\* most pulses in one batch handed to setPulsesForExtent
MaxBatch == 2
\* most pulses in one batch when writes and queries are mixed
MaxTilePulses == 1

\* bin sizes (world units per bin) and grid origins drawn as inputs
BinSizes == {2}
CoordOneMaxs == {5}
CoordTwoMins == {1}

\* arguments and results of the calls of the functions of gridindexutils.py
VARIABLES pc, csiArgs, csiRet, convArgs, convRet, sliceArgs, sliceRet

\* the fields of one SPDV4SimpleGridSpatialIndex, the file it is opened on, the
\* last call made on it, and the tiles its caller still has to write
VARIABLES pixelGrid, si_cnt, si_idx, lastExtent, lastPulseSpace, lastPulseIdx,
          lastPulseIdxMask, fileHandle, call, script

fnVars == <<csiArgs, csiRet, convArgs, convRet, sliceArgs, sliceRet>>

cacheVars == <<lastExtent, lastPulseSpace, lastPulseIdx, lastPulseIdxMask>>

objVars == <<pixelGrid, si_cnt, si_idx, lastExtent, lastPulseSpace, lastPulseIdx,
             lastPulseIdxMask, fileHandle, call, script>>

vars == <<pc, csiArgs, csiRet, convArgs, convRet, sliceArgs, sliceRet,
          pixelGrid, si_cnt, si_idx, lastExtent, lastPulseSpace, lastPulseIdx,
          lastPulseIdxMask, fileHandle, call, script>>

\* value of a result variable before the call has been made
None == "None"

(* ------------------------------ numpy --------------------------------- *)
\* the index tuples of an array of the given shape (rank 0 to 3)
Idx(shape) ==
    CASE Len(shape) = 0 -> {<< >>}
      [] Len(shape) = 1 -> {<<i>> : i \in 0..(shape[1] - 1)}
      [] Len(shape) = 2 -> {<<i, j>> : i \in 0..(shape[1] - 1), j \in 0..(shape[2] - 1)}
      [] Len(shape) = 3 -> {<<n, i, j>> : n \in 0..(shape[1] - 1),
                                          i \in 0..(shape[2] - 1),
                                          j \in 0..(shape[3] - 1)}

\* numpy.zeros / numpy.ones: an array of the shape filled with v
Full(shape, v) == [shape |-> shape, data |-> [t \in Idx(shape) |-> v]]

\* a 1d array from a function over 0..n-1
Arr1(n, f) == [shape |-> <<n>>, data |-> [t \in Idx(<<n>>) |-> f[t[1]]]]

\* a.shape[0] of a 1d array, and a[i]
Len1(a) == a.shape[1]
At1(a, i) == a.data[<<i>>]

\* number of True entries of a 1d bool array at positions < j
TrueBefore(mask, j) == Cardinality({i \in 0..(j - 1) : At1(mask, i)})

\* a[mask] for 1d a and a 1d bool mask: the elements where mask is True, in order
Compress(a, mask) ==
    LET n == TrueBefore(mask, Len1(mask))
        pos(k) == CHOOSE j \in 0..(Len1(mask) - 1) :
                      At1(mask, j) /\ TrueBefore(mask, j) = k
    IN  [shape |-> <<n>>, data |-> [t \in Idx(<<n>>) |-> At1(a, pos(t[1]))]]

\* a[ndx] for 1d a and a 1d integer index array
Take(a, ndx) ==
    [shape |-> ndx.shape, data |-> [t \in Idx(ndx.shape) |-> At1(a, ndx.data[t])]]

\* a division that rounds toward zero, as int(a / b) does
FloorDiv_Truncating(a, b) == IF a >= 0 THEN a \div b ELSE -((-a) \div b)

\* numpy.floor(a / b) for b > 0
FloorDiv(a, b) == a \div b

\* the bijections of 0..n-1 onto itself, as 1d index arrays
Permutations1(n) ==
    {Arr1(n, p) : p \in {q \in [0..(n - 1) -> 0..(n - 1)] :
                            \A i, j \in 0..(n - 1) : i # j => q[i] # q[j]}}

\* an argsort that leaves the elements in input order
ArgSort_Unsorted(binNum) ==
    {Arr1(Len1(binNum), [i \in 0..(Len1(binNum) - 1) |-> i])}

\* numpy.argsort(binNum): the default sort is not stable, so every index array
\* that puts binNum in non-decreasing order is a possible result
ArgSort(binNum) ==
    {p \in Permutations1(Len1(binNum)) :
        \A i \in 0..(Len1(binNum) - 2) :
            At1(binNum, At1(p, i)) <= At1(binNum, At1(p, i + 1))}

(* ----------------------- BuildSpatialIndexInternal -------------------- *)
\* the loop body without the test for the first element of a bin
BuildStep_NoFirstTest(i, binNum, sortedBinNumNdx, si) ==
    LET nCols == si.si_start.shape[2]
        bn    == At1(binNum, At1(sortedBinNumNdx, i))
        row   == bn \div nCols
        col   == bn % nCols
    IN  [si_start |-> [si.si_start EXCEPT !.data[<<row, col>>] = i],
         si_count |-> [si.si_count EXCEPT !.data[<<row, col>>] = @ + 1]]

\* one pass of the loop body for sorted position i
BuildStep(i, binNum, sortedBinNumNdx, si) ==
    LET nCols == si.si_start.shape[2]
        bn    == At1(binNum, At1(sortedBinNumNdx, i))
        row   == bn \div nCols
        col   == bn % nCols
        start == IF si.si_count.data[<<row, col>>] = 0
                 THEN [si.si_start EXCEPT !.data[<<row, col>>] = i]
                 ELSE si.si_start
    IN  [si_start |-> start,
         si_count |-> [si.si_count EXCEPT !.data[<<row, col>>] = @ + 1]]

RECURSIVE BuildLoop(_, _, _, _)
BuildLoop(i, binNum, sortedBinNumNdx, si) ==
    IF i >= Len1(binNum) THEN si
    ELSE BuildLoop(i + 1, binNum, sortedBinNumNdx,
                   BuildStep(i, binNum, sortedBinNumNdx, si))

\* fills si_start and si_count (passed in zeroed) and gives them back
BuildSpatialIndexInternal(binNum, sortedBinNumNdx, si_start, si_count) ==
    BuildLoop(0, binNum, sortedBinNumNdx,
              [si_start |-> si_start, si_count |-> si_count])

(* --------------------------- CreateSpatialIndex ----------------------- *)
\* row = numpy.floor((coordOneMax - coordOne) / binSize), per element
RowOf(coordOne, coordOneMax, binSize) ==
    [shape |-> coordOne.shape,
     data  |-> [t \in Idx(coordOne.shape) |->
                   FloorDiv(coordOneMax - coordOne.data[t], binSize)]]

\* col = numpy.floor((coordTwo - coordTwoMin) / binSize), per element
ColOf(coordTwo, coordTwoMin, binSize) ==
    [shape |-> coordTwo.shape,
     data  |-> [t \in Idx(coordTwo.shape) |->
                   FloorDiv(coordTwo.data[t] - coordTwoMin, binSize)]]

\* validMask = (row >= 0) & (col >= 0) & (row < nRows) & (col < nCols)
ValidMask(row, col, nRows, nCols) ==
    [shape |-> row.shape,
     data  |-> [t \in Idx(row.shape) |->
                   /\ row.data[t] >= 0 /\ col.data[t] >= 0
                   /\ row.data[t] < nRows /\ col.data[t] < nCols]]

\* binNum = row * nCols + col over the masked rows and columns
BinNum(row, col, nCols) ==
    [shape |-> row.shape,
     data  |-> [t \in Idx(row.shape) |-> row.data[t] * nCols + col.data[t]]]

\* the set of results numpy can give: one per outcome of argsort
CreateSpatialIndex(coordOne, coordTwo, binSize, coordOneMax, coordTwoMin, nRows, nCols) ==
    LET row0      == RowOf(coordOne, coordOneMax, binSize)
        col0      == ColOf(coordTwo, coordTwoMin, binSize)
        validMask == ValidMask(row0, col0, nRows, nCols)
        row       == Compress(row0, validMask)
        col       == Compress(col0, validMask)
        binNum    == BinNum(row, col, nCols)
    IN  {LET si == BuildSpatialIndexInternal(binNum, sortedBinNumNdx,
                        Full(<<nRows, nCols>>, 0), Full(<<nRows, nCols>>, 0))
         IN  [validMask       |-> validMask,
              sortedBinNumNdx |-> sortedBinNumNdx,
              si_start        |-> si.si_start,
              si_count        |-> si.si_count]
         : sortedBinNumNdx \in ArgSort(binNum)}

(* ------------------ convertIdxBool2D / convertIdxBool1D ---------------- *)
\* content of an array made by numpy.empty before anything is written to it
Uninit == -1

\* st is the set of arrays the two functions work on: outBool, outRow, outCol,
\* outIdx, counts, outMask, the running counter, and oob, which records an
\* access outside an array (numba compiles these loops without bounds checks)

\* first pass, loop body: element idx of the dataset belongs to bin (row, col)
MarkStep(st, idx, row, col) ==
    IF idx \notin 0..(Len1(st.outBool) - 1)
    THEN [st EXCEPT !.oob = TRUE]
    ELSE [st EXCEPT !.outBool.data[<<idx>>] = TRUE,
                    !.outRow.data[<<idx>>] = row,
                    !.outCol.data[<<idx>>] = col]

\* the loop over a bin's elements starting one element late
RECURSIVE MarkBin_SkipFirst(_, _, _, _, _, _)
MarkBin_SkipFirst(st, i, cnt, startidx, row, col) ==
    IF i + 1 >= cnt THEN st
    ELSE MarkBin_SkipFirst(MarkStep(st, startidx + i + 1, row, col), i + 1, cnt,
                           startidx, row, col)

\* for i in range(cnt): idx = int(startidx + i); ...
RECURSIVE MarkBin(_, _, _, _, _, _)
MarkBin(st, i, cnt, startidx, row, col) ==
    IF i >= cnt THEN st
    ELSE MarkBin(MarkStep(st, startidx + i, row, col), i + 1, cnt, startidx, row, col)

\* for col in range(nCols): for row in range(nRows): k counts the bins visited
RECURSIVE MarkBins2D(_, _, _, _)
MarkBins2D(st, k, start_idx_array, count_array) ==
    LET nRows == start_idx_array.shape[1]
        nCols == start_idx_array.shape[2]
    IN  IF k >= nRows * nCols THEN st
        ELSE LET col == k \div nRows
                 row == k % nRows
             IN  MarkBins2D(MarkBin(st, 0, count_array.data[<<row, col>>],
                                    start_idx_array.data[<<row, col>>], row, col),
                            k + 1, start_idx_array, count_array)

\* for row in range(nRows)
RECURSIVE MarkBins1D(_, _, _, _)
MarkBins1D(st, row, start_idx_array, count_array) ==
    IF row >= start_idx_array.shape[1] THEN st
    ELSE MarkBins1D(MarkBin(st, 0, At1(count_array, row),
                            At1(start_idx_array, row), row, Uninit),
                    row + 1, start_idx_array, count_array)

\* the second pass storing the position in the dataset, not in the subset
AssignStep_AbsoluteIndex(st, j, bin) ==
    IF ~At1(st.outBool, j) THEN st
    ELSE LET c == st.counts.data[bin]
         IN  IF <<c>> \o bin \notin DOMAIN st.outIdx.data
             THEN [st EXCEPT !.oob = TRUE]
             ELSE [st EXCEPT !.outIdx.data[<<c>> \o bin] = j,
                             !.outMask.data[<<c>> \o bin] = FALSE,
                             !.counts.data[bin] = @ + 1,
                             !.counter = @ + 1]

\* the second pass without the write to outMask
AssignStep_NoMaskClear(st, j, bin) ==
    IF ~At1(st.outBool, j) THEN st
    ELSE LET c == st.counts.data[bin]
         IN  IF <<c>> \o bin \notin DOMAIN st.outIdx.data
             THEN [st EXCEPT !.oob = TRUE]
             ELSE [st EXCEPT !.outIdx.data[<<c>> \o bin] = st.counter,
                             !.counts.data[bin] = @ + 1,
                             !.counter = @ + 1]

\* the second pass without the update of the running element number
AssignStep_NoCounter(st, j, bin) ==
    IF ~At1(st.outBool, j) THEN st
    ELSE LET c == st.counts.data[bin]
         IN  IF <<c>> \o bin \notin DOMAIN st.outIdx.data
             THEN [st EXCEPT !.oob = TRUE]
             ELSE [st EXCEPT !.outIdx.data[<<c>> \o bin] = st.counter,
                             !.outMask.data[<<c>> \o bin] = FALSE,
                             !.counts.data[bin] = @ + 1]

\* second pass, loop body for dataset position j; bin is <<row, col>> or <<row>>
AssignStep(st, j, bin) ==
    IF ~At1(st.outBool, j) THEN st
    ELSE LET c == st.counts.data[bin]
         IN  IF <<c>> \o bin \notin DOMAIN st.outIdx.data
             THEN [st EXCEPT !.oob = TRUE]
             ELSE [st EXCEPT !.outIdx.data[<<c>> \o bin] = st.counter,
                             !.outMask.data[<<c>> \o bin] = FALSE,
                             !.counts.data[bin] = @ + 1,
                             !.counter = @ + 1]

\* for j in range(n), the bin of j read from outRow (and outCol)
RECURSIVE AssignLoop(_, _, _)
AssignLoop(st, j, ndim) ==
    IF j >= Len1(st.outBool) \/ st.oob THEN st
    ELSE AssignLoop(AssignStep(st, j,
                        IF ~At1(st.outBool, j) THEN << >>
                        ELSE IF ndim = 2
                             THEN <<At1(st.outRow, j), At1(st.outCol, j)>>
                             ELSE <<At1(st.outRow, j)>>),
                    j + 1, ndim)

convertIdxBool2D(start_idx_array, count_array, st) ==
    AssignLoop(MarkBins2D(st, 0, start_idx_array, count_array), 0, 2)

convertIdxBool1D(start_idx_array, count_array, st) ==
    IF start_idx_array.shape[1] = 0 THEN st
    ELSE AssignLoop(MarkBins1D(st, 0, start_idx_array, count_array), 0, 1)

(* ------------------ convertSPDIdxToReadIdxAndMaskInfo ------------------ *)
\* a.size and a.max()
Size(a) == Cardinality(DOMAIN a.data)
Max(a) == CHOOSE m \in {a.data[t] : t \in DOMAIN a.data} :
              \A t \in DOMAIN a.data : a.data[t] <= m

\* the smallest count taken for the largest
MaxCountOf_Smallest(count_array) ==
    IF Size(count_array) > 0
    THEN CHOOSE m \in {count_array.data[t] : t \in DOMAIN count_array.data} :
            \A t \in DOMAIN count_array.data : m <= count_array.data[t]
    ELSE 0

\* maxCount: the size of the first axis of outIdx and outMask
MaxCountOf(count_array) == IF Size(count_array) > 0 THEN Max(count_array) ELSE 0

\* the arrays allocated for a 1d or 2d index, run through convertIdxBool1D/2D
ConvertArrays(start_idx_array, count_array, outSize, maxCount) ==
    LET st0 == [outBool |-> Full(<<outSize>>, FALSE),
                outIdx  |-> Full(<<maxCount>> \o count_array.shape, 0),
                outMask |-> Full(<<maxCount>> \o count_array.shape, TRUE),
                outRow  |-> Full(<<outSize>>, Uninit),
                outCol  |-> Full(<<outSize>>, Uninit),
                counts  |-> Full(count_array.shape, 0),
                counter |-> 0,
                oob     |-> FALSE]
    IN  IF Len(count_array.shape) = 2
        THEN convertIdxBool2D(start_idx_array, count_array, st0)
        ELSE convertIdxBool1D(start_idx_array, count_array, st0)

\* what the caller gets: the three arrays (with the final counts and counter of
\* the second pass kept for inspection), or OutOfBounds after an access outside
\* an array
Returned(st) ==
    IF st.oob
    THEN [raised |-> "OutOfBounds"]
    ELSE [raised |-> "none", outBool |-> st.outBool, outIdx |-> st.outIdx,
          outMask |-> st.outMask, counts |-> st.counts, counter |-> st.counter]

\* count_array.max() called without the test on count_array.size: numpy raises
\* ValueError for the maximum of an empty array
convertSPDIdx_NoSizeTest(start_idx_array, count_array, outSize) ==
    IF Size(count_array) = 0 \/ Len(count_array.shape) \notin {1, 2}
    THEN [raised |-> "ValueError"]
    ELSE Returned(ConvertArrays(start_idx_array, count_array, outSize,
                                Max(count_array)))

\* the final else branch left out: the return statement finds outIdx unbound
convertSPDIdx_NoElse(start_idx_array, count_array, outSize) ==
    IF Len(count_array.shape) \notin {1, 2}
    THEN [raised |-> "UnboundLocalError"]
    ELSE Returned(ConvertArrays(start_idx_array, count_array, outSize,
                                MaxCountOf(count_array)))

convertSPDIdxToReadIdxAndMaskInfo(start_idx_array, count_array, outSize) ==
    IF Len(count_array.shape) \notin {1, 2}
    THEN [raised |-> "ValueError"]
    ELSE Returned(ConvertArrays(start_idx_array, count_array, outSize,
                                MaxCountOf(count_array)))

(* --------------------------- getSlicesForExtent ----------------------- *)
\* int(a / b) for b > 0: the quotient rounded toward zero
TruncDiv(a, b) == IF a >= 0 THEN a \div b ELSE -((-a) \div b)

\* int(numpy.ceil(a / b)) for b > 0
CeilDiv(a, b) == -((-a) \div b)

\* a min and a max that do not look at the second number
Min2_First(a, b) == a
Max2_First(a, b) == a

\* a max that does not look at the first number
Max2_Second(a, b) == b

\* the built-in min and max of two numbers
Min2(a, b) == IF a <= b THEN a ELSE b
Max2(a, b) == IF a >= b THEN a ELSE b

\* a size with the overlap added once only
MarginSize_OneSide(size, overlap) == size + overlap

\* xSize_margin = xsize + overlap * 2 (and the same for ySize_margin)
MarginSize(size, overlap) == size + overlap * 2

\* the value None, and a pair (slice(r0, r1), slice(c0, c1))
NoSlice == [none |-> TRUE]
SlicePair(r0, r1, c0, c1) ==
    [none |-> FALSE, rows |-> [start |-> r0, stop |-> r1],
                     cols |-> [start |-> c0, stop |-> c1]]

\* siShape is (rows, cols), 1-based here. The first value given to
\* ySize_margin_file (line 433) is overwritten on line 436 before any use.
getSlicesForExtent(siPixGrid, siShape, overlap, xMin, xMax, yMin, yMax) ==
    LET xoff    == TruncDiv(xMin - siPixGrid.xMin, siPixGrid.xRes)
        yoff    == TruncDiv(siPixGrid.yMax - yMax, siPixGrid.yRes)
        xright  == CeilDiv(xMax - siPixGrid.xMin, siPixGrid.xRes)
        xbottom == CeilDiv(siPixGrid.yMax - yMin, siPixGrid.yRes)
        xsize   == xright - xoff
        ysize   == xbottom - yoff
        xoff_margin  == xoff - overlap
        yoff_margin  == yoff - overlap
        xSize_margin == MarginSize(xsize, overlap)
        ySize_margin == MarginSize(ysize, overlap)
        imgLeftBound   == 0
        imgTopBound    == 0
        imgRightBound  == siShape[2]
        imgBottomBound == siShape[1]
        xoff_margin_file   == Min2(Max2(xoff_margin, imgLeftBound), imgRightBound)
        xright_margin_file == Min2(xoff_margin + xSize_margin, imgRightBound)
        xSize_margin_file  == xright_margin_file - xoff_margin_file
        yoff_margin_file    == Min2(Max2(yoff_margin, imgTopBound), imgBottomBound)
        ybottom_margin_file == Min2(yoff_margin + ySize_margin, imgBottomBound)
        ySize_margin_file   == ybottom_margin_file - yoff_margin_file
        notRead_left   == xoff_margin_file - xoff_margin
        notRead_right  == xSize_margin - (notRead_left + xSize_margin_file)
        notRead_top    == yoff_margin_file - yoff_margin
        notRead_bottom == ySize_margin - (notRead_top + ySize_margin_file)
        slice_right  == xSize_margin - notRead_right
        slice_bottom == ySize_margin - notRead_bottom
    IN  IF xSize_margin_file > 0 /\ ySize_margin_file > 0
        THEN [imageSlice |-> SlicePair(notRead_top, slice_bottom,
                                       notRead_left, slice_right),
              siSlice    |-> SlicePair(yoff_margin_file,
                                       yoff_margin_file + ySize_margin_file,
                                       xoff_margin_file,
                                       xoff_margin_file + xSize_margin_file)]
        ELSE [imageSlice |-> NoSlice, siSlice |-> NoSlice]

(* ---------------- SPDV4SimpleGridSpatialIndex (spdv4_index.py) ---------- *)
\* the value None of a field of the index object, of a result, or of a slice
Null == [none |-> TRUE]

\* round(a / b) for b > 0: the nearest integer, a tie going to the even one
RoundDiv(a, b) ==
    LET q == a \div b
        r == a % b
    IN  IF 2 * r < b THEN q
        ELSE IF 2 * r > b THEN q + 1
        ELSE IF q % 2 = 0 THEN q ELSE q + 1

\* pixGrid.snapToGrid(val, valOnGrid, res) of rios.pixelgrid: the grid line
\* nearest to val
snapToGrid(val, valOnGrid, res) == valOnGrid + RoundDiv(val - valOnGrid, res) * res

\* the extent snapped to the grid of the spatial index
SnapExtent(pixGrid, extent) ==
    [xMin |-> snapToGrid(extent.xMin, pixGrid.xMin, pixGrid.xRes),
     xMax |-> snapToGrid(extent.xMax, pixGrid.xMax, pixGrid.xRes),
     yMin |-> snapToGrid(extent.yMin, pixGrid.yMin, pixGrid.yRes),
     yMax |-> snapToGrid(extent.yMax, pixGrid.yMax, pixGrid.yRes)]

\* Extent.__eq__ (pylidar/basedriver.py): the four bounds and the bin size agree
ExtentEq(a, b) ==
    /\ a.xMin = b.xMin /\ a.xMax = b.xMax
    /\ a.yMin = b.yMin /\ a.yMax = b.yMax
    /\ a.binSize = b.binSize

\* a tile that starts out filled with ones
ZeroTile_Ones(nrows, ncols) == Full(<<nrows, ncols>>, 1)

\* numpy.zeros((nrows, ncols)): the working tile before anything is copied in
ZeroTile(nrows, ncols) == Full(<<nrows, ncols>>, 0)

\* the rows and columns a slice pair selects
SliceRows(sl) == sl.rows.start..(sl.rows.stop - 1)
SliceCols(sl) == sl.cols.start..(sl.cols.stop - 1)

\* a copy that reads the source from its top left corner, whatever srcSlice says
AssignSlice_FromOrigin(dst, dstSlice, src, srcSlice) ==
    [dst EXCEPT !.data =
        [t \in DOMAIN dst.data |->
            IF t[1] \in SliceRows(dstSlice) /\ t[2] \in SliceCols(dstSlice)
            THEN src.data[<<t[1] - dstSlice.rows.start, t[2] - dstSlice.cols.start>>]
            ELSE dst.data[t]]]

\* a copy that writes the destination from its top left corner, whatever
\* dstSlice says
AssignSlice_ToOrigin(dst, dstSlice, src, srcSlice) ==
    [dst EXCEPT !.data =
        [t \in DOMAIN dst.data |->
            IF /\ t[1] < dstSlice.rows.stop - dstSlice.rows.start
               /\ t[2] < dstSlice.cols.stop - dstSlice.cols.start
            THEN src.data[<<t[1] + srcSlice.rows.start, t[2] + srcSlice.cols.start>>]
            ELSE dst.data[t]]]

\* a copy that leaves zero everywhere outside dstSlice
AssignSlice_ClearRest(dst, dstSlice, src, srcSlice) ==
    [dst EXCEPT !.data =
        [t \in DOMAIN dst.data |->
            IF t[1] \in SliceRows(dstSlice) /\ t[2] \in SliceCols(dstSlice)
            THEN src.data[<<t[1] - dstSlice.rows.start + srcSlice.rows.start,
                            t[2] - dstSlice.cols.start + srcSlice.cols.start>>]
            ELSE 0]]

\* dst[dstSlice] = src[srcSlice] for two slice pairs of the same size
AssignSlice(dst, dstSlice, src, srcSlice) ==
    [dst EXCEPT !.data =
        [t \in DOMAIN dst.data |->
            IF t[1] \in SliceRows(dstSlice) /\ t[2] \in SliceCols(dstSlice)
            THEN src.data[<<t[1] - dstSlice.rows.start + srcSlice.rows.start,
                            t[2] - dstSlice.cols.start + srcSlice.cols.start>>]
            ELSE dst.data[t]]]

\* lines 244-249 of getSISubset: the two zeroed tiles with the region of the
\* index copied in when there is one; the two slices are kept beside them
FillTiles(cnt, idx, zeros, slices) ==
    IF ~slices.imageSlice.none /\ ~slices.siSlice.none
    THEN [idx_subset |-> AssignSlice(zeros, slices.imageSlice, idx, slices.siSlice),
          cnt_subset |-> AssignSlice(zeros, slices.imageSlice, cnt, slices.siSlice),
          imageSlice |-> slices.imageSlice,
          siSlice    |-> slices.siSlice]
    ELSE [idx_subset |-> zeros, cnt_subset |-> zeros,
          imageSlice |-> slices.imageSlice, siSlice |-> slices.siSlice]

\* lines 230-242 of getSISubset, for the extent already snapped
SISubsetOf(pixGrid, cnt, idx, snapped, overlap) ==
    FillTiles(cnt, idx,
              ZeroTile(CeilDiv(snapped.yMax - snapped.yMin, pixGrid.yRes) + overlap * 2,
                       CeilDiv(snapped.xMax - snapped.xMin, pixGrid.xRes) + overlap * 2),
              getSlicesForExtent(pixGrid, cnt.shape, overlap, snapped.xMin,
                                 snapped.xMax, snapped.yMin, snapped.yMax))

\* getSISubset: the block of the spatial index for the extent and overlap
getSISubset(pixGrid, cnt, idx, extent, overlap) ==
    SISubsetOf(pixGrid, cnt, idx, SnapExtent(pixGrid, extent), overlap)

\* a cache test that never finds the extent
CacheHit_Never(last, extent) == FALSE

\* a cache test that takes any extent for the cached one
CacheHit_AnyExtent(last, extent) == ~(last = Null)

\* self.lastExtent is not None and self.lastExtent == extent
CacheHit(last, extent) == ~(last = Null) /\ ExtentEq(last, extent)

\* the triple (pulse_space, pulse_idx, pulse_idx_mask) out of what the
\* converter returns
Triple(conv) ==
    IF conv.raised = "none"
    THEN [raised |-> "none", space |-> conv.outBool, idx |-> conv.outIdx,
          mask |-> conv.outMask]
    ELSE [raised |-> conv.raised]

\* an offset that is not added
AddOffset_None(idx_subset, lastPulseID) == idx_subset

\* idx_subset + lastPulseID: the offset added to every element
AddOffset(idx_subset, lastPulseID) ==
    [idx_subset EXCEPT !.data = [t \in DOMAIN idx_subset.data |->
                                    idx_subset.data[t] + lastPulseID]]

\* pulses[name]: one column of a 1d array of records
Column(pulses, name) ==
    [shape |-> pulses.shape, data |-> [t \in DOMAIN pulses.data |-> pulses.data[t][name]]]

\* the pulses with the mask applied and no sort
Reorder_MaskOnly(pulses, mask, sortedBins) == Compress(pulses, mask)

\* pulses[mask] and then pulses[sortedBins]
Reorder(pulses, mask, sortedBins) == Take(Compress(pulses, mask), sortedBins)

\* lines 335-347 of setPulsesForExtent for one outcome csi of
\* CreateSpatialIndex: the persisted arrays with the batch index written at
\* siSlice, and the returned (pulses, mask, sortedBins)
WriteAndReturn(cnt, idx, pulses, lastPulseID, csi, slices) ==
    [si_cnt |-> IF ~slices.imageSlice.none /\ ~slices.siSlice.none
                THEN AssignSlice(cnt, slices.siSlice, csi.si_count, slices.imageSlice)
                ELSE cnt,
     si_idx |-> IF ~slices.imageSlice.none /\ ~slices.siSlice.none
                THEN AssignSlice(idx, slices.siSlice,
                                 AddOffset(csi.si_start, lastPulseID), slices.imageSlice)
                ELSE idx,
     pulses     |-> Reorder(pulses, csi.validMask, csi.sortedBinNumNdx),
     mask       |-> csi.validMask,
     sortedBins |-> csi.sortedBinNumNdx]

\* lines 318-347 of setPulsesForExtent, for the extent already snapped: one
\* result per outcome of CreateSpatialIndex. Both tile dimensions are divided
\* by xRes (lines 319-320)
SetPulsesOf(pixGrid, cnt, idx, snapped, pulses, lastPulseID) ==
    {WriteAndReturn(cnt, idx, pulses, lastPulseID, csi,
                    getSlicesForExtent(pixGrid, cnt.shape, 0, snapped.xMin,
                                       snapped.xMax, snapped.yMin, snapped.yMax)) :
        csi \in CreateSpatialIndex(Column(pulses, "Y_IDX"), Column(pulses, "X_IDX"),
                    pixGrid.xRes, snapped.yMax, snapped.xMin,
                    CeilDiv(snapped.yMax - snapped.yMin, pixGrid.xRes),
                    CeilDiv(snapped.xMax - snapped.xMin, pixGrid.xRes))}

\* setPulsesForExtent: the set of results it can give
setPulsesForExtent(pixGrid, cnt, idx, extent, pulses, lastPulseID) ==
    SetPulsesOf(pixGrid, cnt, idx, SnapExtent(pixGrid, extent), pulses, lastPulseID)

\* numpy.concatenate of two 1d arrays: the dataset after b is appended to a
Concat1(a, b) ==
    [shape |-> <<Len1(a) + Len1(b)>>,
     data  |-> [t \in Idx(<<Len1(a) + Len1(b)>>) |->
                  IF t[1] < Len1(a) THEN a.data[t] ELSE b.data[<<t[1] - Len1(a)>>]]]

(* ------------------------------ inputs -------------------------------- *)
\* every half bin from the far edge of the grid to half a bin outside the
\* near edge (the side where the floor is negative), bin edges included
FineOnes(coordOneMax, binSize, nRows) ==
    (coordOneMax - binSize * nRows)..(coordOneMax + 1)
FineTwos(coordTwoMin, binSize, nCols) ==
    (coordTwoMin - 1)..(coordTwoMin + binSize * nCols)

\* the centre of every row (column) of bins, and half a bin outside the grid
CoarseOnes(coordOneMax, binSize, nRows) ==
    {coordOneMax + 1} \cup {coordOneMax - binSize * k - 1 : k \in 0..(nRows - 1)}
CoarseTwos(coordTwoMin, binSize, nCols) ==
    {coordTwoMin - 1} \cup {coordTwoMin + binSize * k + 1 : k \in 0..(nCols - 1)}

\* grid shapes of at most MaxBins bins; a zero dimension is a legal grid
GridShapes == {sh \in (0..MaxRows) \X (0..MaxCols) : sh[1] * sh[2] <= MaxBins}

\* shapes a start/count index can have: 1d, 2d, and the unsupported ranks 0 and 3
IndexShapes ==
    {<<n>> : n \in 0..MaxLen1D} \cup GridShapes \cup {<< >>, <<1, 1, 1>>, <<0, 1, 2>>}

\* the [start, start + count) runs of count >= 1 that fit a dataset of outSize
Runs(outSize) ==
    {r \in [start : 0..outSize, count : 1..MaxCount] : r.start + r.count <= outSize}

\* the start/count index in which the bins of DOMAIN run hold these runs and
\* every other bin has count 0 and the start value junk, which nothing should read
IndexOf(sh, run, junk) ==
    [start_idx_array |-> [shape |-> sh,
                          data  |-> [t \in Idx(sh) |->
                                       IF t \in DOMAIN run THEN run[t].start ELSE junk]],
     count_array     |-> [shape |-> sh,
                          data  |-> [t \in Idx(sh) |->
                                       IF t \in DOMAIN run THEN run[t].count ELSE 0]]]

\* the pixel grid of a spatial index of the given shape: top left corner
\* (xMin, yMax), square bins of binSize
PixelGrid(xMin, yMax, binSize, shape) ==
    [xMin |-> xMin, xMax |-> xMin + shape[2] * binSize,
     yMin |-> yMax - shape[1] * binSize, yMax |-> yMax,
     xRes |-> binSize, yRes |-> binSize]

\* grid dimensions offered to the slicer
SliceDims == (0..MaxSliceDim) \cup {10}

\* windows [lo, hi) in bins along an axis of n bins, from MaxOff bins before the
\* grid to MaxOff bins after it
Windows(n) == {w \in ((-MaxOff)..(n + MaxOff)) \X ((-MaxOff)..(n + MaxOff)) : w[1] <= w[2]}

(* --------------------------- specifications --------------------------- *)
\* no index object is open
NoObject ==
    /\ pixelGrid = Null /\ si_cnt = Null /\ si_idx = Null
    /\ lastExtent = Null /\ lastPulseSpace = Null /\ lastPulseIdx = Null
    /\ lastPulseIdxMask = Null /\ fileHandle = Null /\ call = Null
    /\ script = << >>

\* no function of gridindexutils.py is being called on its own
NoFunctionCall ==
    /\ csiArgs = None /\ csiRet = None /\ convArgs = None /\ convRet = None
    /\ sliceArgs = None /\ sliceRet = None

InitCreate ==
    /\ \E bs \in BinSizes, y0 \in CoordOneMaxs, x0 \in CoordTwoMins,
          sh \in GridShapes :
         \/ \E n \in 0..MaxPts :
              \E c1 \in [0..(n - 1) -> CoarseOnes(y0, bs, sh[1])],
                 c2 \in [0..(n - 1) -> CoarseTwos(x0, bs, sh[2])] :
                 csiArgs = [coordOne |-> Arr1(n, c1), coordTwo |-> Arr1(n, c2),
                            binSize |-> bs, coordOneMax |-> y0, coordTwoMin |-> x0,
                            nRows |-> sh[1], nCols |-> sh[2]]
         \/ \E n \in 1..MaxPtsFine :
              \E c1 \in [0..(n - 1) -> FineOnes(y0, bs, sh[1])],
                 c2 \in [0..(n - 1) -> FineTwos(x0, bs, sh[2])] :
                 csiArgs = [coordOne |-> Arr1(n, c1), coordTwo |-> Arr1(n, c2),
                            binSize |-> bs, coordOneMax |-> y0, coordTwoMin |-> x0,
                            nRows |-> sh[1], nCols |-> sh[2]]
    /\ csiRet = None
    /\ convArgs = None
    /\ convRet = None
    /\ sliceArgs = None
    /\ sliceRet = None
    /\ pc = "CreateSpatialIndex"
    /\ NoObject

CallCreateSpatialIndex ==
    /\ pc = "CreateSpatialIndex"
    /\ pc' = "created"
    /\ csiRet' \in CreateSpatialIndex(csiArgs.coordOne, csiArgs.coordTwo,
                       csiArgs.binSize, csiArgs.coordOneMax, csiArgs.coordTwoMin,
                       csiArgs.nRows, csiArgs.nCols)
    /\ UNCHANGED <<csiArgs, convArgs, convRet, sliceArgs, sliceRet>>
    /\ UNCHANGED objVars

\* the index just built is handed to the converter, the dataset being the
\* in-grid elements in sorted order
ConvertBuiltIndex ==
    /\ pc = "created"
    /\ pc' = "roundtrip"
    /\ convArgs' = [start_idx_array |-> csiRet.si_start,
                    count_array     |-> csiRet.si_count,
                    outSize         |-> Len1(csiRet.sortedBinNumNdx)]
    /\ convRet' = convertSPDIdxToReadIdxAndMaskInfo(csiRet.si_start,
                       csiRet.si_count, Len1(csiRet.sortedBinNumNdx))
    /\ UNCHANGED <<csiArgs, csiRet, sliceArgs, sliceRet>>
    /\ UNCHANGED objVars

NextCreate == CallCreateSpatialIndex \/ ConvertBuiltIndex

SpecCreate == InitCreate /\ [][NextCreate]_vars

InitConvert ==
    /\ \E sh \in IndexShapes, outSize \in 0..MaxOut :
         \E S \in {T \in SUBSET Idx(sh) : Cardinality(T) <= MaxNonEmpty},
            junk \in {0, outSize} :
            \E run \in [S -> Runs(outSize)] :
               convArgs = [start_idx_array |-> IndexOf(sh, run, junk).start_idx_array,
                           count_array     |-> IndexOf(sh, run, junk).count_array,
                           outSize         |-> outSize]
    /\ convRet = None
    /\ csiArgs = None
    /\ csiRet = None
    /\ sliceArgs = None
    /\ sliceRet = None
    /\ pc = "convertSPDIdxToReadIdxAndMaskInfo"
    /\ NoObject

CallConvert ==
    /\ pc = "convertSPDIdxToReadIdxAndMaskInfo"
    /\ pc' = "converted"
    /\ convRet' = convertSPDIdxToReadIdxAndMaskInfo(convArgs.start_idx_array,
                       convArgs.count_array, convArgs.outSize)
    /\ UNCHANGED <<csiArgs, csiRet, convArgs, sliceArgs, sliceRet>>
    /\ UNCHANGED objVars

NextConvert == CallConvert

SpecConvert == InitConvert /\ [][NextConvert]_vars

\* the window is given in world coordinates snapped to the grid; win keeps its
\* bin coordinates: rows [win.r0, win.r1) and columns [win.c0, win.c1)
InitSlices ==
    /\ \E bs \in BinSizes, y0 \in CoordOneMaxs, x0 \in CoordTwoMins,
          nr \in SliceDims, nc \in SliceDims, overlap \in 0..MaxOverlap :
         \E rw \in Windows(nr), cw \in Windows(nc) :
            sliceArgs = [siPixGrid |-> PixelGrid(x0, y0, bs, <<nr, nc>>),
                         siShape   |-> <<nr, nc>>,
                         overlap   |-> overlap,
                         xMin      |-> x0 + cw[1] * bs,
                         xMax      |-> x0 + cw[2] * bs,
                         yMin      |-> y0 - rw[2] * bs,
                         yMax      |-> y0 - rw[1] * bs,
                         win       |-> [r0 |-> rw[1], r1 |-> rw[2],
                                        c0 |-> cw[1], c1 |-> cw[2]]]
    /\ sliceRet = None
    /\ csiArgs = None
    /\ csiRet = None
    /\ convArgs = None
    /\ convRet = None
    /\ pc = "getSlicesForExtent"
    /\ NoObject

CallGetSlicesForExtent ==
    /\ pc = "getSlicesForExtent"
    /\ pc' = "sliced"
    /\ sliceRet' = getSlicesForExtent(sliceArgs.siPixGrid, sliceArgs.siShape,
                        sliceArgs.overlap, sliceArgs.xMin, sliceArgs.xMax,
                        sliceArgs.yMin, sliceArgs.yMax)
    /\ UNCHANGED <<csiArgs, csiRet, convArgs, convRet, sliceArgs>>
    /\ UNCHANGED objVars

NextSlices == CallGetSlicesForExtent

SpecSlices == InitSlices /\ [][NextSlices]_vars

(* ------------------- reading through the index object ----------------- *)
\* the grid of the file: 2 x 2 bins of 4 world units, top left corner (1, 9)
IndexGrids == {PixelGrid(1, 9, 4, <<2, 2>>)}

\* pixelGrid.getDimensions(): (nrows, ncols)
Dimensions(pg) == <<(pg.yMax - pg.yMin) \div pg.yRes, (pg.xMax - pg.xMin) \div pg.xRes>>

\* the extent of the window of bins rows [w.r0, w.r1) x cols [w.c0, w.c1), every
\* bound moved off the grid lines by jitter world units
WindowExtent(pg, w, jitter) ==
    [xMin |-> pg.xMin + w.c0 * pg.xRes + jitter,
     xMax |-> pg.xMin + w.c1 * pg.xRes + jitter,
     yMin |-> pg.yMax - w.r1 * pg.yRes + jitter,
     yMax |-> pg.yMax - w.r0 * pg.yRes + jitter,
     binSize |-> pg.xRes]

\* windows along an axis of n bins: the first bin, the last bin, the whole
\* axis, and one bin past the end
AxisWindows(n) == {<<0, 1>>, <<n - 1, n>>, <<0, n>>, <<n, n + 1>>}

\* the windows of bins a first query is made for
QueryWindows(pg) ==
    {[r0 |-> rw[1], r1 |-> rw[2], c0 |-> cw[1], c1 |-> cw[2]] :
        rw \in AxisWindows(Dimensions(pg)[1]), cw \in AxisWindows(Dimensions(pg)[2])}

\* the pulses of a file in the order they are stored: pulse p lies at the
\* centre of bin binOf[p] (row-major bin number), has p % (MaxReturns + 1)
\* returns, and its points follow those of the pulses before it
RECURSIVE ReturnsBefore(_)
ReturnsBefore(p) == IF p = 0 THEN 0 ELSE ReturnsBefore(p - 1) + ((p - 1) % (MaxReturns + 1))

StoredPulses(pg, n, binOf) ==
    Arr1(n, [p \in 0..(n - 1) |->
        [PULSE_ID          |-> p,
         X_IDX             |-> pg.xMin + (binOf[p] % Dimensions(pg)[2]) * pg.xRes + pg.xRes \div 2,
         Y_IDX             |-> pg.yMax - (binOf[p] \div Dimensions(pg)[2]) * pg.yRes - pg.yRes \div 2,
         NUMBER_OF_RETURNS |-> p % (MaxReturns + 1),
         PTS_START_IDX     |-> ReturnsBefore(p)]])

\* PLS_PER_BIN and BIN_OFFSETS of a file whose pulses were written one row of
\* bins at a time: a bin with pulses starts after the pulses of the bins before
\* it, an empty bin holds the number of pulses written before its row
StoredIndex(pg, n, binOf) ==
    LET nc == Dimensions(pg)[2]
        inBin(b) == Cardinality({p \in 0..(n - 1) : binOf[p] = b})
        before(b) == Cardinality({p \in 0..(n - 1) : binOf[p] < b})
    IN  [si_cnt |-> [shape |-> Dimensions(pg),
                     data  |-> [t \in Idx(Dimensions(pg)) |-> inBin(t[1] * nc + t[2])]],
         si_idx |-> [shape |-> Dimensions(pg),
                     data  |-> [t \in Idx(Dimensions(pg)) |->
                                  IF inBin(t[1] * nc + t[2]) > 0
                                  THEN before(t[1] * nc + t[2])
                                  ELSE before(t[1] * nc)]]]

\* the object after __init__ in READ mode on a file that holds at most
\* MaxFilePulses pulses sorted by bin
InitRead ==
    /\ \E pg \in IndexGrids, n \in 0..MaxFilePulses :
         \E binOf \in {f \in [0..(n - 1) -> 0..(Dimensions(pg)[1] * Dimensions(pg)[2] - 1)] :
                          \A i \in 0..(n - 2) : f[i] <= f[i + 1]} :
            /\ pixelGrid = pg
            /\ si_cnt = StoredIndex(pg, n, binOf).si_cnt
            /\ si_idx = StoredIndex(pg, n, binOf).si_idx
            /\ fileHandle = [mode    |-> "READ",
                             PULSES  |-> StoredPulses(pg, n, binOf),
                             nPoints |-> ReturnsBefore(n)]
    /\ lastExtent = Null
    /\ lastPulseSpace = Null
    /\ lastPulseIdx = Null
    /\ lastPulseIdxMask = Null
    /\ call = [name |-> "__init__", n |-> 0]
    /\ script = << >>
    /\ NoFunctionCall
    /\ pc = "open"

\* lines 264-269 of getPulsesSpaceForExtent: the triple is put in the cache
\* with the extent and returned (nothing is cached when the converter failed)
CacheAndReturn(extent, tile, ret) ==
    IF ret.raised = "none"
    THEN [computed |-> TRUE, tile |-> tile, ret |-> ret,
          lastExtent |-> extent, lastPulseSpace |-> ret.space,
          lastPulseIdx |-> ret.idx, lastPulseIdxMask |-> ret.mask]
    ELSE [computed |-> TRUE, tile |-> tile, ret |-> ret,
          lastExtent |-> lastExtent, lastPulseSpace |-> lastPulseSpace,
          lastPulseIdx |-> lastPulseIdx, lastPulseIdxMask |-> lastPulseIdxMask]

\* lines 260-262: the tile converted against the PULSES dataset of the file
ConvertTile(extent, tile) ==
    CacheAndReturn(extent, tile,
        Triple(convertSPDIdxToReadIdxAndMaskInfo(tile.idx_subset, tile.cnt_subset,
                                                 Len1(fileHandle.PULSES))))

\* what one call of getPulsesSpaceForExtent returns and leaves in the cache;
\* computed says whether lines 259-267 ran, tile is what getSISubset gave
getPulsesSpaceForExtent(extent, overlap) ==
    IF CacheHit(lastExtent, extent)
    THEN [computed |-> FALSE, tile |-> Null,
          ret |-> [raised |-> "none", space |-> lastPulseSpace,
                   idx |-> lastPulseIdx, mask |-> lastPulseIdxMask],
          lastExtent |-> lastExtent, lastPulseSpace |-> lastPulseSpace,
          lastPulseIdx |-> lastPulseIdx, lastPulseIdxMask |-> lastPulseIdxMask]
    ELSE ConvertTile(extent, getSISubset(pixelGrid, si_cnt, si_idx, extent, overlap))

\* pulse_space.read(dataset): pulse_space is the numpy bool array outBool that
\* convertSPDIdxToReadIdxAndMaskInfo returns, and a numpy array has no read
ReadSpace(space, dataset) == [raised |-> "AttributeError"]

\* what getPointsSpaceForExtent returns, given what the pulse query returned
PointsSpace(pulseRet) ==
    LET nReturns  == ReadSpace(pulseRet.space, Column(fileHandle.PULSES, "NUMBER_OF_RETURNS"))
        startIdxs == ReadSpace(pulseRet.space, Column(fileHandle.PULSES, "PTS_START_IDX"))
    IN  IF pulseRet.raised # "none" THEN pulseRet
        ELSE IF nReturns.raised # "none" THEN nReturns
        ELSE IF startIdxs.raised # "none" THEN startIdxs
        ELSE Triple(convertSPDIdxToReadIdxAndMaskInfo(startIdxs.value,
                        nReturns.value, fileHandle.nPoints))

\* the window of all bins of the grid
WholeGrid(pg) ==
    [r0 |-> 0, r1 |-> Dimensions(pg)[1], c0 |-> 0, c1 |-> Dimensions(pg)[2]]

\* the queries offered next, as (extent, overlap) with the window of bins the
\* extent snaps to kept in win and its distance from the grid lines in jitter:
\* at first any window, on the grid lines or a world unit off them; afterwards
\* the extent of the last call, the same window at the other distance from
\* the grid lines, and the whole grid
Queries ==
    IF call.n = 0
    THEN {[extent |-> WindowExtent(pixelGrid, w, j), overlap |-> m, win |-> w,
           jitter |-> j] :
             w \in QueryWindows(pixelGrid), j \in {0, 1}, m \in 0..MaxMargin}
    ELSE {[extent |-> WindowExtent(pixelGrid, w, j), overlap |-> m, win |-> w,
           jitter |-> j] :
             w \in {call.win}, j \in {0, 1}, m \in 0..MaxMargin}
         \cup
         {[extent |-> WindowExtent(pixelGrid, WholeGrid(pixelGrid), 0),
           overlap |-> m, win |-> WholeGrid(pixelGrid), jitter |-> 0] :
             m \in 0..MaxMargin}

\* the object and the record of the call after a pulse query that gave r
PulsesReturn(q, r) ==
    /\ call' = [name |-> "getPulsesSpaceForExtent", n |-> call.n + 1,
                extent |-> q.extent, overlap |-> q.overlap, win |-> q.win,
                jitter |-> q.jitter,
                computed |-> r.computed, tile |-> r.tile, ret |-> r.ret]
    /\ lastExtent' = r.lastExtent
    /\ lastPulseSpace' = r.lastPulseSpace
    /\ lastPulseIdx' = r.lastPulseIdx
    /\ lastPulseIdxMask' = r.lastPulseIdxMask

GetPulsesSpaceForExtent ==
    /\ pc = "open"
    /\ call.n < MaxQueries
    /\ \E q \in Queries :
         PulsesReturn(q, getPulsesSpaceForExtent(q.extent, q.overlap))
    /\ UNCHANGED <<pc, pixelGrid, si_cnt, si_idx, fileHandle, script>>
    /\ UNCHANGED fnVars

\* the object and the record of the call after a point query whose pulse query
\* gave r
PointsReturn(q, r) ==
    /\ call' = [name |-> "getPointsSpaceForExtent", n |-> call.n + 1,
                extent |-> q.extent, overlap |-> q.overlap, win |-> q.win,
                jitter |-> q.jitter,
                computed |-> r.computed, tile |-> r.tile,
                pulseRet |-> r.ret, ret |-> PointsSpace(r.ret)]
    /\ lastExtent' = r.lastExtent
    /\ lastPulseSpace' = r.lastPulseSpace
    /\ lastPulseIdx' = r.lastPulseIdx
    /\ lastPulseIdxMask' = r.lastPulseIdxMask

GetPointsSpaceForExtent ==
    /\ pc = "open"
    /\ call.n < MaxQueries
    /\ \E q \in Queries :
         PointsReturn(q, getPulsesSpaceForExtent(q.extent, q.overlap))
    /\ UNCHANGED <<pc, pixelGrid, si_cnt, si_idx, fileHandle, script>>
    /\ UNCHANGED fnVars

NextRead == GetPulsesSpaceForExtent \/ GetPointsSpaceForExtent

SpecRead == InitRead /\ [][NextRead]_vars

(* ------------------- writing through the index object ----------------- *)
\* a window of bins
Win(r0, r1, c0, c1) == [r0 |-> r0, r1 |-> r1, c0 |-> c0, c1 |-> c1]

\* the tiles a caller writes one after the other into a grid of nr x nc bins,
\* and whether it passes the number of pulses written so far as lastPulseID
\* (running) or always 0: the whole grid; the grid by rows, in either order,
\* and by columns; a tile written twice; a tile that hangs over the bottom
\* edge, alone and after the first row; a tile below the grid
TileScripts(nr, nc) ==
    {[tiles |-> t, running |-> TRUE] :
        t \in {<<Win(0, nr, 0, nc)>>,
               <<Win(0, 1, 0, nc), Win(1, nr, 0, nc)>>,
               <<Win(1, nr, 0, nc), Win(0, 1, 0, nc)>>,
               <<Win(0, nr, 0, 1), Win(0, nr, 1, nc)>>,
               <<Win(0, 1, 0, nc), Win(0, 1, 0, nc)>>,
               <<Win(1, nr + 1, 0, nc)>>,
               <<Win(0, 1, 0, nc), Win(1, nr + 1, 0, nc)>>,
               <<Win(nr, nr + 1, 0, nc)>>}}
    \cup {[tiles |-> <<Win(0, 1, 0, nc), Win(1, nr, 0, nc)>>, running |-> FALSE]}

\* the bins at whose centre a pulse of a batch for tile w may lie: the bins of
\* the tile, and one bin just outside it (above it, or below it for a tile
\* that starts in row 0)
BatchBins(w) ==
    {<<r, c>> : r \in w.r0..(w.r1 - 1), c \in w.c0..(w.c1 - 1)}
    \cup {IF w.r0 > 0 THEN <<w.r0 - 1, w.c0>> ELSE <<w.r1, w.c0>>}

\* a batch of n pulses, pulse i at the centre of bin binOf[i], with PULSE_ID
\* first, first + 1, ...
Batch(pg, n, binOf, first) ==
    Arr1(n, [i \in 0..(n - 1) |->
        [PULSE_ID          |-> first + i,
         X_IDX             |-> pg.xMin + binOf[i][2] * pg.xRes + pg.xRes \div 2,
         Y_IDX             |-> pg.yMax - binOf[i][1] * pg.yRes - pg.yRes \div 2,
         NUMBER_OF_RETURNS |-> 0,
         PTS_START_IDX     |-> 0]])

\* the object after __init__ in CREATE mode on a new file, and the tiles its
\* caller is going to write
InitWrite ==
    /\ pixelGrid = Null
    /\ si_cnt = Null
    /\ si_idx = Null
    /\ lastExtent = Null
    /\ lastPulseSpace = Null
    /\ lastPulseIdx = Null
    /\ lastPulseIdxMask = Null
    /\ fileHandle = [mode |-> "CREATE", PULSES |-> Arr1(0, << >>), nPoints |-> 0]
    /\ call = [name |-> "__init__", n |-> 0]
    /\ \E pg \in IndexGrids :
         \E sc \in TileScripts(Dimensions(pg)[1], Dimensions(pg)[2]) :
            script = [grid |-> pg, tiles |-> sc.tiles, running |-> sc.running]
    /\ NoFunctionCall
    /\ pc = "constructed"

\* createNewIndex(pixelGrid)
CreateNewIndex ==
    /\ pc = "constructed"
    /\ pc' = "indexed"
    /\ si_cnt' = Full(Dimensions(script.grid), 0)
    /\ si_idx' = Full(Dimensions(script.grid), 0)
    /\ pixelGrid' = script.grid
    /\ call' = [name |-> "createNewIndex", n |-> 0]
    /\ UNCHANGED <<fileHandle, script>>
    /\ UNCHANGED cacheVars
    /\ UNCHANGED fnVars

\* the object, the file and the record of the call after setPulsesForExtent
\* gave r for tile w: the caller appends the returned pulses to the PULSES
\* dataset. before keeps the persisted arrays as they were
SetPulsesReturn(w, extent, pulses, lastPulseID, r) ==
    /\ si_cnt' = r.si_cnt
    /\ si_idx' = r.si_idx
    /\ fileHandle' = [fileHandle EXCEPT !.PULSES = Concat1(@, r.pulses)]
    /\ call' = [name |-> "setPulsesForExtent", n |-> call.n + 1,
                extent |-> extent, win |-> w, pulses |-> pulses,
                lastPulseID |-> lastPulseID,
                before |-> [si_cnt |-> si_cnt, si_idx |-> si_idx,
                            nPulses |-> Len1(fileHandle.PULSES)],
                ret |-> [pulses |-> r.pulses, mask |-> r.mask,
                         sortedBins |-> r.sortedBins]]

\* setPulsesForExtent(extent, pulses, lastPulseID) for the next tile of the
\* script and a batch of at most MaxBatch pulses
SetPulsesForExtent ==
    /\ pc = "indexed"
    /\ call.n < Len(script.tiles)
    /\ \E n \in 0..MaxBatch :
         \E binOf \in [0..(n - 1) -> BatchBins(script.tiles[call.n + 1])] :
            \E r \in setPulsesForExtent(pixelGrid, si_cnt, si_idx,
                        WindowExtent(pixelGrid, script.tiles[call.n + 1], 0),
                        Batch(pixelGrid, n, binOf, call.n * (MaxBatch + 1)),
                        IF script.running THEN Len1(fileHandle.PULSES) ELSE 0) :
               SetPulsesReturn(script.tiles[call.n + 1],
                               WindowExtent(pixelGrid, script.tiles[call.n + 1], 0),
                               Batch(pixelGrid, n, binOf, call.n * (MaxBatch + 1)),
                               IF script.running THEN Len1(fileHandle.PULSES) ELSE 0,
                               r)
    /\ UNCHANGED <<pc, pixelGrid, script>>
    /\ UNCHANGED cacheVars
    /\ UNCHANGED fnVars

NextWrite == CreateNewIndex \/ SetPulsesForExtent

SpecWrite == InitWrite /\ [][NextWrite]_vars

(* --------------- writing and reading through one index object ---------- *)
\* the tiles written when queries are made in between: the grid by rows, and
\* the whole grid at once
UseScripts(nr, nc) ==
    {<<Win(0, 1, 0, nc), Win(1, nr, 0, nc)>>, <<Win(0, nr, 0, nc)>>}

\* the object after __init__ in CREATE mode; written and reads count the calls
\* made so far, cached keeps the margin the cached triple was computed for and
\* whether the caller has left its arrays as they were
InitUse ==
    /\ pixelGrid = Null
    /\ si_cnt = Null
    /\ si_idx = Null
    /\ lastExtent = Null
    /\ lastPulseSpace = Null
    /\ lastPulseIdx = Null
    /\ lastPulseIdxMask = Null
    /\ fileHandle = [mode |-> "CREATE", PULSES |-> Arr1(0, << >>), nPoints |-> 0]
    /\ call = [name |-> "__init__", n |-> 0]
    /\ \E pg \in IndexGrids :
         \E t \in UseScripts(Dimensions(pg)[1], Dimensions(pg)[2]) :
            script = [grid |-> pg, tiles |-> t, running |-> TRUE,
                      written |-> 0, reads |-> 0, cached |-> Null]
    /\ NoFunctionCall
    /\ pc = "constructed"

\* setPulsesForExtent for the next tile, the caller passing the number of
\* pulses written so far as lastPulseID and appending what is returned
UseSetPulsesForExtent ==
    /\ pc = "indexed"
    /\ script.written < Len(script.tiles)
    /\ \E n \in 0..MaxTilePulses :
         \E binOf \in [0..(n - 1) -> BatchBins(script.tiles[script.written + 1])] :
            \E r \in setPulsesForExtent(pixelGrid, si_cnt, si_idx,
                        WindowExtent(pixelGrid, script.tiles[script.written + 1], 0),
                        Batch(pixelGrid, n, binOf, script.written * (MaxTilePulses + 1)),
                        Len1(fileHandle.PULSES)) :
               SetPulsesReturn(script.tiles[script.written + 1],
                               WindowExtent(pixelGrid, script.tiles[script.written + 1], 0),
                               Batch(pixelGrid, n, binOf, script.written * (MaxTilePulses + 1)),
                               Len1(fileHandle.PULSES), r)
    /\ script' = [script EXCEPT !.written = @ + 1]
    /\ UNCHANGED <<pc, pixelGrid>>
    /\ UNCHANGED cacheVars
    /\ UNCHANGED fnVars

\* the queries made between the writes: the first tile and the whole grid,
\* with any margin
UseQueries ==
    {[extent |-> WindowExtent(pixelGrid, w, 0), overlap |-> m, win |-> w, jitter |-> 0] :
        w \in {script.tiles[1], WholeGrid(pixelGrid)}, m \in 0..MaxMargin}

\* getPulsesSpaceForExtent on the object that is being written
UseGetPulsesSpaceForExtent ==
    /\ pc = "indexed"
    /\ script.reads < MaxQueries
    /\ \E q \in UseQueries :
         /\ PulsesReturn(q, getPulsesSpaceForExtent(q.extent, q.overlap))
         /\ script' = [script EXCEPT !.reads = @ + 1,
                                     !.cached = IF CacheHit(lastExtent, q.extent) THEN @
                                                ELSE [overlap |-> q.overlap,
                                                      intact |-> TRUE]]
    /\ UNCHANGED <<pc, pixelGrid, si_cnt, si_idx, fileHandle>>
    /\ UNCHANGED fnVars

\* a[0] = v on a numpy array (any number of axes): the first element replaced
SetFirst(a, v) ==
    [a EXCEPT !.data = [t \in DOMAIN a.data |->
                           IF \A k \in 1..Len(t) : t[k] = 0 THEN v ELSE a.data[t]]]

\* the first element of an array that has one
First(a) == a.data[[k \in 1..Len(a.shape) |-> 0]]

\* the triples a caller can make of the triple it was handed by one assignment
\* to the first element of one of the three arrays
Modified(ret) ==
    {[ret EXCEPT !.space = SetFirst(@, ~First(@))] :
        x \in {n \in {Size(ret.space)} : n > 0}}
    \cup {[ret EXCEPT !.idx = SetFirst(@, First(@) + 1)] :
             x \in {n \in {Size(ret.idx)} : n > 0}}
    \cup {[ret EXCEPT !.mask = SetFirst(@, ~First(@))] :
             x \in {n \in {Size(ret.mask)} : n > 0}}

\* the caller assigns to an element of an array the last query returned. Lines
\* 254 and 264-269 of getPulsesSpaceForExtent return the very objects that
\* self.lastPulseSpace, self.lastPulseIdx and self.lastPulseIdxMask name (no
\* copy is made on either path), so the assignment is seen through the fields
\* of the index object as well. original keeps what the query returned
CallerModifiesReturned ==
    /\ pc = "indexed"
    /\ call.name = "getPulsesSpaceForExtent"
    /\ call.ret.raised = "none"
    /\ "original" \notin DOMAIN call
    /\ \E m \in Modified(call.ret) :
         /\ call' = [name |-> call.name, n |-> call.n, extent |-> call.extent,
                     overlap |-> call.overlap, win |-> call.win,
                     jitter |-> call.jitter, computed |-> call.computed,
                     tile |-> call.tile, ret |-> m, original |-> call.ret]
         /\ lastPulseSpace' = m.space
         /\ lastPulseIdx' = m.idx
         /\ lastPulseIdxMask' = m.mask
    /\ script' = [script EXCEPT !.cached.intact = FALSE]
    /\ UNCHANGED <<pc, pixelGrid, si_cnt, si_idx, fileHandle, lastExtent>>
    /\ UNCHANGED fnVars

NextUse ==
    \/ CreateNewIndex
    \/ UseSetPulsesForExtent
    \/ UseGetPulsesSpaceForExtent
    \/ CallerModifiesReturned

SpecUse == InitUse /\ [][NextUse]_vars

(* ------------------------ opening the index of a file ------------------ *)
\* the access modes of generic.py
Modes == {"READ", "UPDATE", "CREATE"}

SPDV4_INDEX_CARTESIAN == 1
SPDV4_INDEX_SPHERICAL == 2
SPDV4_INDEX_CYLINDRICAL == 3
SPDV4_INDEX_POLAR == 4
SPDV4_INDEX_SCAN == 5
SPDV4_INDEXTYPE_SIMPLEGRID == 0

\* the values of the INDEX_TYPE attribute drawn for a file, and the values of
\* prefType drawn for a call
IndexTypes == 0..6
PrefTypes == {SPDV4_INDEXTYPE_SIMPLEGRID, 1}

\* what a file holds of its spatial index: no SPATIALINDEX group ("absent"), a
\* SPATIALINDEX group without SIMPLEPULSEGRID in it ("group"), or both
\* ("simplegrid")
IndexGroups == {"absent", "group", "simplegrid"}

\* a file: its header attributes and, under SPATIALINDEX/SIMPLEPULSEGRID, the
\* two datasets of the index
File(group, indexType, shape, stored) ==
    [group |-> group,
     attrs |-> [INDEX_TYPE |-> indexType, BIN_SIZE |-> 4,
                NUMBER_BINS_Y |-> shape[1], NUMBER_BINS_X |-> shape[2],
                INDEX_TLX |-> 1, INDEX_TLY |-> 9],
     PLS_PER_BIN |-> stored.si_cnt,
     BIN_OFFSETS |-> stored.si_idx]

\* SPDV4SpatialIndex.__init__: the pixel grid read out of the header
SpatialIndexInit(file) ==
    IF file.attrs.NUMBER_BINS_Y # 0 \/ file.attrs.NUMBER_BINS_X # 0
    THEN PixelGrid(file.attrs.INDEX_TLX, file.attrs.INDEX_TLY, file.attrs.BIN_SIZE,
                   <<file.attrs.NUMBER_BINS_Y, file.attrs.NUMBER_BINS_X>>)
    ELSE Null

\* the object as lines 146-156 leave it
NewObject(file, mode) ==
    [mode |-> mode, pixelGrid |-> SpatialIndexInit(file),
     si_cnt |-> Null, si_idx |-> Null,
     si_xPulseColName |-> "X_IDX", si_yPulseColName |-> "Y_IDX",
     indexType |-> SPDV4_INDEX_CARTESIAN]

\* lines 169-185: the index read in and the pulse columns chosen. The else
\* branch formats its message with the name indexType, which is bound nowhere
\* (the attribute is self.indexType), so it ends in NameError before the
\* raise statement of line 185 is reached
ReadIndex(file, obj) ==
    IF file.attrs.INDEX_TYPE = SPDV4_INDEX_CARTESIAN
    THEN [raised |-> "none",
          obj |-> [obj EXCEPT !.si_cnt = file.PLS_PER_BIN, !.si_idx = file.BIN_OFFSETS,
                              !.indexType = file.attrs.INDEX_TYPE,
                              !.si_xPulseColName = "X_IDX", !.si_yPulseColName = "Y_IDX"]]
    ELSE IF file.attrs.INDEX_TYPE = SPDV4_INDEX_SPHERICAL
    THEN [raised |-> "none",
          obj |-> [obj EXCEPT !.si_cnt = file.PLS_PER_BIN, !.si_idx = file.BIN_OFFSETS,
                              !.indexType = file.attrs.INDEX_TYPE,
                              !.si_xPulseColName = "AZIMUTH", !.si_yPulseColName = "ZENITH"]]
    ELSE IF file.attrs.INDEX_TYPE = SPDV4_INDEX_SCAN
    THEN [raised |-> "none",
          obj |-> [obj EXCEPT !.si_cnt = file.PLS_PER_BIN, !.si_idx = file.BIN_OFFSETS,
                              !.indexType = file.attrs.INDEX_TYPE,
                              !.si_xPulseColName = "SCANLINE_IDX",
                              !.si_yPulseColName = "SCANLINE"]]
    ELSE [raised |-> "NameError", obj |-> Null]

\* SPDV4SimpleGridSpatialIndex.__init__(fileHandle, mode): the object, or the
\* exception it ends in. With a SPATIALINDEX group that has no SIMPLEPULSEGRID
\* in it, group stays the SPATIALINDEX group and group['PLS_PER_BIN'] fails
SimpleGridInit(file, mode) ==
    IF mode \in {"READ", "UPDATE"}
    THEN IF file.group = "absent"
         THEN [raised |-> "LiDARSpatialIndexNotAvailable", obj |-> Null]
         ELSE IF file.group = "group"
         THEN [raised |-> "KeyError", obj |-> Null]
         ELSE ReadIndex(file, NewObject(file, mode))
    ELSE [raised |-> "none", obj |-> NewObject(file, mode)]

\* getHandlerForFile(fileHandle, mode, prefType): cls is bound only for the
\* simple grid, and only LiDARSpatialIndexNotAvailable is caught
HandlerOf(made) ==
    IF made.raised = "LiDARSpatialIndexNotAvailable"
    THEN [raised |-> "none", obj |-> Null]
    ELSE made

getHandlerForFile(file, mode, prefType) ==
    IF prefType = SPDV4_INDEXTYPE_SIMPLEGRID
    THEN HandlerOf(SimpleGridInit(file, mode))
    ELSE [raised |-> "UnboundLocalError", obj |-> Null]

\* a file, and the mode and preferred index type it is going to be opened with
InitOpen ==
    /\ \E g \in IndexGroups, t \in IndexTypes, sh \in {<<0, 0>>, <<2, 2>>},
          n \in {0, MaxFilePulses} :
         fileHandle = File(g, t, sh,
                           StoredIndex(PixelGrid(1, 9, 4, sh), n, [p \in 0..(n - 1) |-> 0]))
    /\ \E m \in Modes, pt \in PrefTypes : script = [mode |-> m, prefType |-> pt]
    /\ pixelGrid = Null
    /\ si_cnt = Null
    /\ si_idx = Null
    /\ lastExtent = Null
    /\ lastPulseSpace = Null
    /\ lastPulseIdx = Null
    /\ lastPulseIdxMask = Null
    /\ call = [name |-> "none", n |-> 0]
    /\ NoFunctionCall
    /\ pc = "closed"

\* the fields of the object a call made, when it made one
Opened(name, r) ==
    /\ call' = [name |-> name, n |-> 1, mode |-> script.mode,
                prefType |-> script.prefType, ret |-> r]
    /\ pixelGrid' = IF r.obj = Null THEN Null ELSE r.obj.pixelGrid
    /\ si_cnt' = IF r.obj = Null THEN Null ELSE r.obj.si_cnt
    /\ si_idx' = IF r.obj = Null THEN Null ELSE r.obj.si_idx
    /\ pc' = "opened"
    /\ UNCHANGED <<fileHandle, script>>
    /\ UNCHANGED cacheVars
    /\ UNCHANGED fnVars

\* SPDV4SpatialIndex.getHandlerForFile(fileHandle, mode, prefType)
GetHandlerForFile ==
    /\ pc = "closed"
    /\ Opened("getHandlerForFile",
              getHandlerForFile(fileHandle, script.mode, script.prefType))

\* SPDV4SimpleGridSpatialIndex(fileHandle, mode)
Construct ==
    /\ pc = "closed"
    /\ Opened("SPDV4SimpleGridSpatialIndex", SimpleGridInit(fileHandle, script.mode))

NextOpen == GetHandlerForFile \/ Construct

SpecOpen == InitOpen /\ [][NextOpen]_vars

(* ------------------- selectColumns (toolbox/spatial.py) ----------------- *)
\* a filter whose lower y edge is closed
BoundingBoxMask_ClosedBelow(x, y, boundingbox) ==
    [shape |-> x.shape,
     data  |-> [t \in DOMAIN x.data |->
                   /\ x.data[t] >= boundingbox.xmin /\ x.data[t] < boundingbox.xmax
                   /\ y.data[t] >= boundingbox.ymin /\ y.data[t] <= boundingbox.ymax]]

\* mask = ((x >= xmin) & (x < xmax) & (y > ymin) & (y <= ymax))
BoundingBoxMask(x, y, boundingbox) ==
    [shape |-> x.shape,
     data  |-> [t \in DOMAIN x.data |->
                   /\ x.data[t] >= boundingbox.xmin /\ x.data[t] < boundingbox.xmax
                   /\ y.data[t] > boundingbox.ymin /\ y.data[t] <= boundingbox.ymax]]

\* the block of points restricted to the bounding box when one is given
\* (classification is None and X and Y are among the columns read)
Restrict(dataArr, boundingbox) ==
    IF boundingbox = Null THEN dataArr
    ELSE Compress(dataArr, BoundingBoxMask(Column(dataArr, "X"), Column(dataArr, "Y"),
                                           boundingbox))

\* selectColumns for one driver: otherargs.dataArrList after the call
selectColumns(dataArr, boundingbox, dataArrList) ==
    IF Len1(Restrict(dataArr, boundingbox)) > 0
    THEN Append(dataArrList, Restrict(dataArr, boundingbox))
    ELSE dataArrList

\* the bounds (xmin, xmax, ymin, ymax) of the grid CreateSpatialIndex is given,
\* moved down by the given number of grid heights
GridBox(a, down) ==
    [xmin |-> a.coordTwoMin,
     xmax |-> a.coordTwoMin + a.nCols * a.binSize,
     ymin |-> a.coordOneMax - (down + 1) * a.nRows * a.binSize,
     ymax |-> a.coordOneMax - down * a.nRows * a.binSize]

\* the block of points a driver hands out: the coordinates given to
\* CreateSpatialIndex, each point with its position in ID
PointsOfBlock(a) ==
    Arr1(Len1(a.coordOne),
         [i \in 0..(Len1(a.coordOne) - 1) |->
             [X |-> At1(a.coordTwo, i), Y |-> At1(a.coordOne, i), ID |-> i]])

\* the y and x coordinates drawn for a grid of height h and width w: on every
\* edge of the grid and of the tile below it, half a bin inside and half a bin
\* outside
EdgeOnes(coordOneMax, h) ==
    {coordOneMax + 1, coordOneMax, coordOneMax - 1, coordOneMax - h + 1,
     coordOneMax - h, coordOneMax - h - 1, coordOneMax - 2 * h}
EdgeTwos(coordTwoMin, w) ==
    {coordTwoMin - 1, coordTwoMin, coordTwoMin + w - 1, coordTwoMin + w}

\* the grid shapes whose bounds are used as bounding box
BoxShapes == {<<1, 1>>, <<2, 2>>, <<0, 2>>}

\* points on and around the edges of a grid, which is first indexed and then
\* filtered
InitSelect ==
    /\ \E bs \in BinSizes, y0 \in CoordOneMaxs, x0 \in CoordTwoMins, sh \in BoxShapes :
         \E n \in 0..MaxPtsFine :
            \E c1 \in [0..(n - 1) -> EdgeOnes(y0, bs * sh[1])],
               c2 \in [0..(n - 1) -> EdgeTwos(x0, bs * sh[2])] :
               csiArgs = [coordOne |-> Arr1(n, c1), coordTwo |-> Arr1(n, c2),
                          binSize |-> bs, coordOneMax |-> y0, coordTwoMin |-> x0,
                          nRows |-> sh[1], nCols |-> sh[2]]
    /\ csiRet = None
    /\ convArgs = None
    /\ convRet = None
    /\ sliceArgs = None
    /\ sliceRet = None
    /\ pc = "CreateSpatialIndex"
    /\ NoObject

\* selectColumns called with the bounds of the grid as bounding box, with the
\* bounds of the tile below it, and without a bounding box; every call starts
\* from an empty otherargs.dataArrList
SelectColumns ==
    /\ pc = "created"
    /\ pc' = "selected"
    /\ call' = [name  |-> "selectColumns",
                n     |-> 1,
                grid  |-> selectColumns(PointsOfBlock(csiArgs), GridBox(csiArgs, 0), << >>),
                below |-> selectColumns(PointsOfBlock(csiArgs), GridBox(csiArgs, 1), << >>),
                all   |-> selectColumns(PointsOfBlock(csiArgs), Null, << >>)]
    /\ UNCHANGED <<pixelGrid, si_cnt, si_idx, fileHandle, script>>
    /\ UNCHANGED cacheVars
    /\ UNCHANGED fnVars

NextSelect == CallCreateSpatialIndex \/ SelectColumns

SpecSelect == InitSelect /\ [][NextSelect]_vars

(* ------------------------------- claims ------------------------------- *)
\* CreateSpatialIndex has returned
Created == pc \in {"created", "roundtrip"}

\* the positions of a 1d array
Positions(a) == 0..(Len1(a) - 1)

\* number of True entries of the validity mask
NValid == TrueBefore(csiRet.validMask, Len1(csiRet.validMask))

\* input element i lies in bin (r, c): r <= (coordOneMax - coordOne[i]) / binSize
\* < r + 1 and c <= (coordTwo[i] - coordTwoMin) / binSize < c + 1
InBin(i, r, c) ==
    LET dy == csiArgs.coordOneMax - At1(csiArgs.coordOne, i)
        dx == At1(csiArgs.coordTwo, i) - csiArgs.coordTwoMin
    IN  /\ r * csiArgs.binSize <= dy /\ dy < (r + 1) * csiArgs.binSize
        /\ c * csiArgs.binSize <= dx /\ dx < (c + 1) * csiArgs.binSize

\* the input element that the sort permutation puts at sorted position p
ElementAt(p) ==
    CHOOSE i \in Positions(csiRet.validMask) :
        /\ At1(csiRet.validMask, i)
        /\ TrueBefore(csiRet.validMask, i) = At1(csiRet.sortedBinNumNdx, p)

\* the bins of the built index whose count is above zero
NonEmptyBins == {b \in DOMAIN csiRet.si_count.data : csiRet.si_count.data[b] > 0}

\* C1: after CreateSpatialIndex the ranges [si_start[b], si_start[b] + si_count[b])
\* of the bins with si_count[b] > 0 partition the sorted positions 0..nValid-1:
\* each range lies inside 0..nValid-1 and every position is in exactly one range.
C1_RangesPartitionSortedPositions ==
    Created =>
        /\ \A b \in NonEmptyBins :
              csiRet.si_start.data[b] + csiRet.si_count.data[b] <= NValid
        /\ \A p \in 0..(NValid - 1) :
              Cardinality({b \in NonEmptyBins :
                              /\ csiRet.si_start.data[b] <= p
                              /\ p < csiRet.si_start.data[b] + csiRet.si_count.data[b]}) = 1

\* three in-grid elements given out of bin order, two of them sharing a bin
C1_Witness ==
    /\ pc = "created"
    /\ NValid = 3
    /\ Cardinality(NonEmptyBins) = 2
    /\ \E p \in 0..2 : At1(csiRet.sortedBinNumNdx, p) # p

\* C2: si_count[row, col] is the number of input elements lying in bin
\* (row, col); when it is above zero, the elements at sorted positions
\* si_start .. si_start + si_count - 1 all lie in that bin, and the element
\* before si_start (if any) does not.
C2_CountAndStartPerBin ==
    Created =>
        \A b \in DOMAIN csiRet.si_count.data :
            LET cnt   == csiRet.si_count.data[b]
                start == csiRet.si_start.data[b]
            IN  /\ cnt = Cardinality({i \in Positions(csiArgs.coordOne) :
                                         InBin(i, b[1], b[2])})
                /\ cnt > 0 =>
                     /\ start + cnt <= Len1(csiRet.sortedBinNumNdx)
                     /\ \A p \in start..(start + cnt - 1) :
                            InBin(ElementAt(p), b[1], b[2])
                     /\ start > 0 => ~InBin(ElementAt(start - 1), b[1], b[2])

\* the 2x2 grid with one element in each of the bins (0,0), (1,0), (1,1)
C2_Witness ==
    /\ pc = "created"
    /\ csiArgs.nRows = 2 /\ csiArgs.nCols = 2
    /\ csiArgs.coordOne = Arr1(3, [i \in 0..2 |-> IF i = 0 THEN csiArgs.coordOneMax - 1
                                                  ELSE csiArgs.coordOneMax - 3])
    /\ csiArgs.coordTwo = Arr1(3, [i \in 0..2 |-> IF i = 2 THEN csiArgs.coordTwoMin + 3
                                                  ELSE csiArgs.coordTwoMin + 1])
    /\ csiRet.si_count.data = [b \in Idx(<<2, 2>>) |-> IF b = <<0, 1>> THEN 0 ELSE 1]
    /\ csiRet.si_start.data[<<0, 0>>] = 0
    /\ csiRet.si_start.data[<<1, 0>>] = 1
    /\ csiRet.si_start.data[<<1, 1>>] = 2

\* C3: element i of the validity mask is True exactly when its row
\* floor((coordOneMax - coordOne[i]) / binSize) is in [0, nRows) and its column
\* floor((coordTwo[i] - coordTwoMin) / binSize) is in [0, nCols); the sort
\* permutation is a permutation of 0..nValid-1 and the index counts exactly
\* the in-grid elements.
C3_MaskIsInGrid ==
    Created =>
        /\ Len1(csiRet.validMask) = Len1(csiArgs.coordOne)
        /\ \A i \in Positions(csiArgs.coordOne) :
              At1(csiRet.validMask, i) <=>
                  LET dy == csiArgs.coordOneMax - At1(csiArgs.coordOne, i)
                      dx == At1(csiArgs.coordTwo, i) - csiArgs.coordTwoMin
                  IN  /\ 0 <= dy /\ dy < csiArgs.nRows * csiArgs.binSize
                      /\ 0 <= dx /\ dx < csiArgs.nCols * csiArgs.binSize
        /\ Len1(csiRet.sortedBinNumNdx) = NValid
        /\ {At1(csiRet.sortedBinNumNdx, p) : p \in 0..(NValid - 1)} = 0..(NValid - 1)
        /\ \A b \in DOMAIN csiRet.si_count.data :
              csiRet.si_count.data[b] =
                  Cardinality({i \in Positions(csiArgs.coordOne) :
                                  At1(csiRet.validMask, i) /\ InBin(i, b[1], b[2])})

\* an element half a bin outside the grid, where the floor is negative, and an
\* element on the inclusive edge, is masked out and kept respectively
C3_Witness ==
    /\ pc = "created"
    /\ Len1(csiArgs.coordOne) = 2
    /\ At1(csiArgs.coordOne, 0) = csiArgs.coordOneMax + 1
    /\ At1(csiArgs.coordOne, 1) = csiArgs.coordOneMax
    /\ ~At1(csiRet.validMask, 0)
    /\ At1(csiRet.validMask, 1)
    /\ NValid = 1

\* convertSPDIdxToReadIdxAndMaskInfo has been called
Converted == pc = "converted"

\* rank of the count array given to the converter
ConvNdim == Len(convArgs.count_array.shape)

\* bin b of the converter's index covers dataset position i
Covers(b, i) ==
    /\ convArgs.start_idx_array.data[b] <= i
    /\ i < convArgs.start_idx_array.data[b] + convArgs.count_array.data[b]

\* the bins of the converter's index
ConvBins == DOMAIN convArgs.count_array.data

\* no dataset position is covered by two bins
DisjointRuns ==
    \A i \in 0..(convArgs.outSize - 1) :
        Cardinality({b \in ConvBins : Covers(b, i)}) <= 1

\* C4: the selection mask has length outSize and position i is True exactly
\* when some bin (2d) or row (1d) has start <= i < start + count.
C4_SelectionMaskIsUnionOfRuns ==
    (Converted /\ ConvNdim \in {1, 2}) =>
        /\ convRet.raised = "none"
        /\ convRet.outBool.shape = <<convArgs.outSize>>
        /\ \A i \in 0..(convArgs.outSize - 1) :
              At1(convRet.outBool, i) <=> \E b \in ConvBins : Covers(b, i)

\* a 2d index with two non-empty bins that leaves part of the dataset unselected
C4_Witness ==
    /\ Converted /\ ConvNdim = 2
    /\ Cardinality({b \in ConvBins : convArgs.count_array.data[b] > 0}) >= 2
    /\ \E i, j \in 0..(convArgs.outSize - 1) :
          At1(convRet.outBool, i) /\ ~At1(convRet.outBool, j)

\* C5: when the non-empty bins have pairwise disjoint ranges, index[slot, bin]
\* for slot < count[bin] is the number of True entries of the selection mask
\* below absolute position start[bin] + slot.
C5_RaggedIndexIsSubsetPosition ==
    (Converted /\ ConvNdim \in {1, 2} /\ DisjointRuns) =>
        /\ convRet.raised = "none"
        /\ \A b \in ConvBins :
              \A slot \in 0..(convArgs.count_array.data[b] - 1) :
                  convRet.outIdx.data[<<slot>> \o b] =
                      TrueBefore(convRet.outBool,
                                 convArgs.start_idx_array.data[b] + slot)

\* count = [2, 0, 1], start = [0, _, 2], dataset size 3
C5_Witness ==
    /\ Converted
    /\ convArgs.outSize = 3
    /\ convArgs.count_array = Arr1(3, [i \in 0..2 |-> IF i = 0 THEN 2 ELSE IF i = 1 THEN 0 ELSE 1])
    /\ At1(convArgs.start_idx_array, 0) = 0
    /\ At1(convArgs.start_idx_array, 2) = 2
    /\ convRet.outBool = Full(<<3>>, TRUE)
    /\ convRet.outIdx.shape = <<2, 3>>
    /\ convRet.outIdx.data[<<0, 0>>] = 0
    /\ convRet.outIdx.data[<<1, 0>>] = 1
    /\ convRet.outIdx.data[<<0, 2>>] = 2

\* C6: when the non-empty bins have pairwise disjoint ranges, the validity mask
\* (and the ragged index) has shape (maxCount, ...shape of the index), maxCount
\* being the largest count (0 for an index without bins), and
\* validity[slot, bin] is True exactly when slot >= count[bin].
C6_ValidityMaskMarksPadding ==
    (Converted /\ ConvNdim \in {1, 2} /\ DisjointRuns) =>
        LET maxCount == IF ConvBins = {} THEN 0
                        ELSE CHOOSE m \in 0..MaxCount :
                                 /\ \E b \in ConvBins : convArgs.count_array.data[b] = m
                                 /\ \A b \in ConvBins : convArgs.count_array.data[b] <= m
        IN  /\ convRet.raised = "none"
            /\ convRet.outMask.shape = <<maxCount>> \o convArgs.count_array.shape
            /\ convRet.outIdx.shape = convRet.outMask.shape
            /\ \A b \in ConvBins :
                  \A slot \in 0..(maxCount - 1) :
                      convRet.outMask.data[<<slot>> \o b] <=>
                          slot >= convArgs.count_array.data[b]

\* a 2d index with an empty bin, a bin of one element and a bin of two
C6_Witness ==
    /\ Converted /\ ConvNdim = 2 /\ DisjointRuns
    /\ \E b0, b1, b2 \in ConvBins :
          /\ convArgs.count_array.data[b0] = 0
          /\ convArgs.count_array.data[b1] = 1
          /\ convArgs.count_array.data[b2] = 2
          /\ convRet.outMask.data[<<0>> \o b0] /\ convRet.outMask.data[<<1>> \o b0]
          /\ ~convRet.outMask.data[<<0>> \o b1] /\ convRet.outMask.data[<<1>> \o b1]
          /\ ~convRet.outMask.data[<<1>> \o b2]

\* the dataset position of the k-th selected element (k counted from 0)
Selected(k) ==
    CHOOSE j \in Positions(convRet.outBool) :
        At1(convRet.outBool, j) /\ TrueBefore(convRet.outBool, j) = k

\* C7: round trip. The index built by CreateSpatialIndex, converted with
\* outSize = number of in-grid elements, gives every bin exactly si_count[bin]
\* valid ragged slots, and the dataset positions those slots denote are exactly
\* the sorted positions si_start .. si_start + si_count - 1 of the bin.
C7_RoundTripRecoversBins ==
    pc = "roundtrip" =>
        /\ convRet.raised = "none"
        /\ \A b \in DOMAIN csiRet.si_count.data :
              LET valid == {slot \in 0..(convRet.outMask.shape[1] - 1) :
                               ~convRet.outMask.data[<<slot>> \o b]}
              IN  /\ Cardinality(valid) = csiRet.si_count.data[b]
                  /\ {Selected(convRet.outIdx.data[<<slot>> \o b]) : slot \in valid} =
                         csiRet.si_start.data[b]..
                            (csiRet.si_start.data[b] + csiRet.si_count.data[b] - 1)

\* three in-grid elements in two bins, built and converted
C7_Witness ==
    /\ pc = "roundtrip"
    /\ NValid = 3
    /\ Cardinality(NonEmptyBins) = 2
    /\ convRet.outMask.shape[1] = 2

\* C8 as stated: a count array of total size 0 gives no error and all three
\* outputs zero-length / zero-shaped, for any outSize.
C8_AllOutputsZeroLength ==
    (Converted /\ ConvNdim \in {1, 2} /\ Size(convArgs.count_array) = 0) =>
        /\ convRet.raised = "none"
        /\ Size(convRet.outBool) = 0
        /\ Size(convRet.outIdx) = 0
        /\ Size(convRet.outMask) = 0

\* C8 amended: a 1d or 2d count array of total size 0 gives no error; the
\* ragged index and the validity mask have shape (0, ...shape of the count
\* array) and no element, and the selection mask has length outSize with every
\* entry False.
C8_EmptyIndexSelectsNothing ==
    (Converted /\ ConvNdim \in {1, 2} /\ Size(convArgs.count_array) = 0) =>
        /\ convRet.raised = "none"
        /\ convRet.outBool = Full(<<convArgs.outSize>>, FALSE)
        /\ convRet.outIdx.shape = <<0>> \o convArgs.count_array.shape
        /\ convRet.outMask.shape = <<0>> \o convArgs.count_array.shape
        /\ Size(convRet.outIdx) = 0
        /\ Size(convRet.outMask) = 0

\* a 2d count array with a zero dimension converted against a non-empty dataset
C8_Witness ==
    /\ Converted /\ ConvNdim = 2
    /\ Size(convArgs.count_array) = 0
    /\ convArgs.outSize > 0
    /\ convRet.raised = "none"

\* C9: a count array whose rank is neither 1 nor 2 makes the converter raise
\* ValueError and return nothing; for rank 1 and rank 2 it does not raise it.
C9_RankOtherThan1Or2IsValueError ==
    Converted =>
        /\ ConvNdim \notin {1, 2} =>
              convRet.raised = "ValueError" /\ DOMAIN convRet = {"raised"}
        /\ ConvNdim \in {1, 2} => convRet.raised # "ValueError"

\* a rank-3 count array has been refused
C9_Witness ==
    /\ Converted /\ ConvNdim = 3
    /\ convRet.raised = "ValueError"

\* getSlicesForExtent has returned
Sliced == pc = "sliced"

\* C10: when the window expanded by the overlap m lies inside the grid (and is
\* not empty), the destination slice is the whole block rows
\* [0, (r1-r0)+2m) x cols [0, (c1-c0)+2m) and the source slice is exactly rows
\* [r0-m, r1+m) x cols [c0-m, c1+m): no padding on any side.
C10_WindowInsideGridHasNoPadding ==
    LET w == sliceArgs.win
        m == sliceArgs.overlap
    IN  (/\ Sliced
         /\ w.r0 - m >= 0 /\ w.r1 + m <= sliceArgs.siShape[1]
         /\ w.c0 - m >= 0 /\ w.c1 + m <= sliceArgs.siShape[2]
         /\ (w.r1 - w.r0) + 2 * m > 0 /\ (w.c1 - w.c0) + 2 * m > 0) =>
            /\ ~sliceRet.imageSlice.none
            /\ ~sliceRet.siSlice.none
            /\ sliceRet.imageSlice.rows = [start |-> 0, stop |-> (w.r1 - w.r0) + 2 * m]
            /\ sliceRet.imageSlice.cols = [start |-> 0, stop |-> (w.c1 - w.c0) + 2 * m]
            /\ sliceRet.siSlice.rows = [start |-> w.r0 - m, stop |-> w.r1 + m]
            /\ sliceRet.siSlice.cols = [start |-> w.c0 - m, stop |-> w.c1 + m]

\* the 10 x 10 grid, margin 1, window rows [2, 4) x cols [2, 4): block 4 x 4,
\* source rows [1, 5) x cols [1, 5)
C10_Witness ==
    /\ Sliced
    /\ sliceArgs.siShape = <<10, 10>>
    /\ sliceArgs.overlap = 1
    /\ sliceArgs.win = [r0 |-> 2, r1 |-> 4, c0 |-> 2, c1 |-> 4]
    /\ ~sliceRet.imageSlice.none
    /\ sliceRet.imageSlice.rows = [start |-> 0, stop |-> 4]
    /\ sliceRet.imageSlice.cols = [start |-> 0, stop |-> 4]
    /\ sliceRet.siSlice.rows = [start |-> 1, stop |-> 5]
    /\ sliceRet.siSlice.cols = [start |-> 1, stop |-> 5]

\* the window expanded by the overlap, in bins: rows [ExpTop, ExpBottom) and
\* columns [ExpLeft, ExpRight), and the same clamped to the grid
ExpTop == sliceArgs.win.r0 - sliceArgs.overlap
ExpBottom == sliceArgs.win.r1 + sliceArgs.overlap
ExpLeft == sliceArgs.win.c0 - sliceArgs.overlap
ExpRight == sliceArgs.win.c1 + sliceArgs.overlap
Clamp(v, n) == IF v < 0 THEN 0 ELSE IF v > n THEN n ELSE v
ClampTop == Clamp(ExpTop, sliceArgs.siShape[1])
ClampBottom == Clamp(ExpBottom, sliceArgs.siShape[1])
ClampLeft == Clamp(ExpLeft, sliceArgs.siShape[2])
ClampRight == Clamp(ExpRight, sliceArgs.siShape[2])

\* C11: when the window expanded by the overlap has at least one bin in common
\* with the grid, the source slice is the expanded window clamped to the grid,
\* and the destination slice is the block (rows 0 .. height of the expanded
\* window, columns 0 .. its width) less, on each of the four sides, the number
\* of bins by which the expanded window runs past the grid on that side.
C11_SlicesClampAndPad ==
    LET past(n) == IF n > 0 THEN n ELSE 0
        nr == sliceArgs.siShape[1]
        nc == sliceArgs.siShape[2]
    IN  (/\ Sliced
         /\ ClampTop < ClampBottom
         /\ ClampLeft < ClampRight) =>
            /\ ~sliceRet.siSlice.none
            /\ ~sliceRet.imageSlice.none
            /\ sliceRet.siSlice.rows = [start |-> ClampTop, stop |-> ClampBottom]
            /\ sliceRet.siSlice.cols = [start |-> ClampLeft, stop |-> ClampRight]
            /\ sliceRet.imageSlice.rows =
                   [start |-> past(0 - ExpTop),
                    stop  |-> (ExpBottom - ExpTop) - past(ExpBottom - nr)]
            /\ sliceRet.imageSlice.cols =
                   [start |-> past(0 - ExpLeft),
                    stop  |-> (ExpRight - ExpLeft) - past(ExpRight - nc)]

\* the 10 x 10 grid, margin 1, a window touching the top edge, rows [0, 2) x
\* cols [2, 4): one row of padding at the top, the source starts at row 0
C11_Witness ==
    /\ Sliced
    /\ sliceArgs.siShape = <<10, 10>>
    /\ sliceArgs.overlap = 1
    /\ sliceArgs.win = [r0 |-> 0, r1 |-> 2, c0 |-> 2, c1 |-> 4]
    /\ sliceRet.imageSlice.rows = [start |-> 1, stop |-> 4]
    /\ sliceRet.imageSlice.cols = [start |-> 0, stop |-> 4]
    /\ sliceRet.siSlice.rows = [start |-> 0, stop |-> 3]
    /\ sliceRet.siSlice.cols = [start |-> 1, stop |-> 5]

\* C12: both slices are None exactly when the expanded window clamped to the
\* grid has no rows or no columns; otherwise both are slices. One slice is
\* never None without the other, and the call always returns.
C12_NoneExactlyWhenClampedWindowEmpty ==
    Sliced =>
        /\ sliceRet.imageSlice.none = sliceRet.siSlice.none
        /\ sliceRet.siSlice.none =
               (ClampBottom - ClampTop <= 0 \/ ClampRight - ClampLeft <= 0)

\* a window one bin below a 3 x 3 grid with no overlap: both slices are None
C12_Witness ==
    /\ Sliced
    /\ sliceArgs.siShape = <<3, 3>>
    /\ sliceArgs.overlap = 0
    /\ sliceArgs.win = [r0 |-> 3, r1 |-> 4, c0 |-> 0, c1 |-> 2]
    /\ sliceRet.imageSlice.none
    /\ sliceRet.siSlice.none

\* a pulse query has returned, and it was computed rather than served
PulsesCalled == call.name = "getPulsesSpaceForExtent"
PulsesComputed == PulsesCalled /\ call.computed

\* C13: a pulse query made right after a pulse query with an equal extent
\* returns the same selection mask, ragged index and validity mask, and is
\* served from the cache (lines 259-267 do not run).
C13_RepeatedExtentServedFromCache ==
    [][(/\ call.name = "getPulsesSpaceForExtent"
        /\ call'.name = "getPulsesSpaceForExtent"
        /\ call'.n = call.n + 1
        /\ ExtentEq(call'.extent, call.extent)) =>
            /\ call'.ret = call.ret
            /\ ~call'.computed]_vars

\* the second of two queries is served from the cache and selects a pulse
C13_Witness ==
    /\ PulsesCalled /\ call.n = 2 /\ ~call.computed
    /\ \E i \in Positions(call.ret.space) : At1(call.ret.space, i)
    /\ call.ret.idx.shape[1] >= 1

\* C14: after every pulse query the cache holds the extent and the triple of
\* that query; a query whose extent equals the cached one leaves the cache as
\* it was and computes nothing, any other query computes its result.
C14_CacheHoldsMostRecentQuery ==
    [][(call'.name = "getPulsesSpaceForExtent" /\ call'.n = call.n + 1) =>
          /\ lastExtent' = call'.extent
          /\ lastPulseSpace' = call'.ret.space
          /\ lastPulseIdx' = call'.ret.idx
          /\ lastPulseIdxMask' = call'.ret.mask
          /\ IF call.n > 0 /\ ExtentEq(lastExtent, call'.extent)
             THEN ~call'.computed /\ UNCHANGED cacheVars
             ELSE call'.computed]_vars

\* the second of two queries had another extent than the first: it was
\* computed and the cache holds its extent and its triple
C14_Witness ==
    /\ PulsesComputed /\ call.n = 2
    /\ lastExtent = call.extent
    /\ lastPulseSpace = call.ret.space
    /\ \E i \in Positions(call.ret.space) : At1(call.ret.space, i)

\* the bin of the grid that cell t of the working tile of the call stands for
GridBinOf(t) ==
    <<call.win.r0 - call.overlap + t[1], call.win.c0 - call.overlap + t[2]>>

\* cell t of the working tile stands for no bin of the grid: it is padding
IsPadding(t) == GridBinOf(t) \notin DOMAIN si_cnt.data

\* C15: in the working tile of a computed query every cell that stands for no
\* bin of the grid has count 0 and start 0, every ragged slot of such a cell
\* is masked out, and every selected pulse lies in the run of a cell that
\* stands for a bin of the grid. When the query is off the grid that is the
\* whole tile, and nothing is selected.
C15_PaddingIsEmpty ==
    PulsesComputed =>
        /\ \A t \in DOMAIN call.tile.cnt_subset.data :
              IsPadding(t) =>
                 /\ call.tile.cnt_subset.data[t] = 0
                 /\ call.tile.idx_subset.data[t] = 0
                 /\ \A k \in 0..(call.ret.mask.shape[1] - 1) :
                       call.ret.mask.data[<<k, t[1], t[2]>>]
        /\ \A i \in Positions(call.ret.space) :
              At1(call.ret.space, i) =>
                 \E t \in DOMAIN call.tile.cnt_subset.data :
                    /\ ~IsPadding(t)
                    /\ call.tile.idx_subset.data[t] <= i
                    /\ i < call.tile.idx_subset.data[t] + call.tile.cnt_subset.data[t]

\* the whole grid queried with overlap 1: a ring of padding around the 2 x 2
\* bins, a ragged index with at least one slot, and a pulse selected
C15_Witness ==
    /\ PulsesComputed
    /\ call.overlap = 1
    /\ call.win = WholeGrid(pixelGrid)
    /\ call.tile.cnt_subset.shape = <<4, 4>>
    /\ IsPadding(<<0, 0>>) /\ IsPadding(<<3, 2>>) /\ ~IsPadding(<<1, 1>>)
    /\ call.ret.mask.shape[1] >= 1
    /\ \E i \in Positions(call.ret.space) : At1(call.ret.space, i)

\* C16: bin (i, j) of the window of a computed query with overlap m is cell
\* (i + m, j + m) of its working tile, with the start and count that cell
\* (i, j) has in the tile of the same extent with overlap 0, and these are the
\* persisted si_idx and si_cnt of the bin of the grid it stands for (when the
\* bin is one of the grid).
C16_InBoundsRegionMatchesUnmarginedQuery ==
    PulsesComputed =>
        LET m  == call.overlap
            t0 == getSISubset(pixelGrid, si_cnt, si_idx, call.extent, 0)
        IN  /\ t0.cnt_subset.shape = <<call.win.r1 - call.win.r0, call.win.c1 - call.win.c0>>
            /\ \A t \in DOMAIN t0.cnt_subset.data :
                  /\ call.tile.cnt_subset.data[<<t[1] + m, t[2] + m>>] = t0.cnt_subset.data[t]
                  /\ call.tile.idx_subset.data[<<t[1] + m, t[2] + m>>] = t0.idx_subset.data[t]
                  /\ <<call.win.r0 + t[1], call.win.c0 + t[2]>> \in DOMAIN si_cnt.data =>
                        /\ t0.cnt_subset.data[t] = si_cnt.data[<<call.win.r0 + t[1], call.win.c0 + t[2]>>]
                        /\ t0.idx_subset.data[t] = si_idx.data[<<call.win.r0 + t[1], call.win.c0 + t[2]>>]

\* the last row and column of the grid queried with overlap 1: the window bin
\* is cell (1, 1) of a 3 x 3 tile, it holds a pulse that does not start the
\* file, and the overlap runs off the grid below and to the right
C16_Witness ==
    /\ PulsesComputed
    /\ call.overlap = 1
    /\ call.win = [r0 |-> 1, r1 |-> 2, c0 |-> 1, c1 |-> 2]
    /\ call.tile.cnt_subset.shape = <<3, 3>>
    /\ call.tile.cnt_subset.data[<<1, 1>>] = 1
    /\ call.tile.idx_subset.data[<<1, 1>>] = 1
    /\ si_idx.data[<<1, 1>>] = 1
    /\ IsPadding(<<2, 2>>)

\* the pulses a point query selected, and their returns
SelectedPulses == {p \in Positions(call.pulseRet.space) : At1(call.pulseRet.space, p)}
ReturnsOf(p) == At1(fileHandle.PULSES, p).NUMBER_OF_RETURNS
PointsOf(p) ==
    At1(fileHandle.PULSES, p).PTS_START_IDX..
        (At1(fileHandle.PULSES, p).PTS_START_IDX + ReturnsOf(p) - 1)

\* C17: a point query returns a selection mask as long as the point dataset
\* that is true exactly at the points of the pulses the pulse query selected,
\* and a ragged index and validity mask with one column per selected pulse
\* and as many rows as the largest return count among them.
C17_PointsComposeOnPulses ==
    call.name = "getPointsSpaceForExtent" =>
        /\ call.ret.raised = "none"
        /\ Len1(call.ret.space) = fileHandle.nPoints
        /\ \A i \in Positions(call.ret.space) :
              At1(call.ret.space, i) <=> (\E p \in SelectedPulses : i \in PointsOf(p))
        /\ call.ret.idx.shape[2] = Cardinality(SelectedPulses)
        /\ call.ret.mask.shape = call.ret.idx.shape
        /\ \A p \in SelectedPulses : ReturnsOf(p) <= call.ret.idx.shape[1]
        /\ call.ret.idx.shape[1] > 0 =>
              \E p \in SelectedPulses : ReturnsOf(p) = call.ret.idx.shape[1]

\* setPulsesForExtent has returned
PulsesSet == call.name = "setPulsesForExtent"

\* the pulse record pl has its coordinates in bin (r, c) of the grid: the top
\* and left edges of a bin belong to it
PulseInBin(pl, r, c) ==
    /\ pixelGrid.xMin + c * pixelGrid.xRes <= pl.X_IDX
    /\ pl.X_IDX < pixelGrid.xMin + (c + 1) * pixelGrid.xRes
    /\ pixelGrid.yMax - (r + 1) * pixelGrid.yRes < pl.Y_IDX
    /\ pl.Y_IDX <= pixelGrid.yMax - r * pixelGrid.yRes

\* the bins of a window, and whether the window lies inside the grid
BinsOf(w) == {<<r, c>> : r \in w.r0..(w.r1 - 1), c \in w.c0..(w.c1 - 1)}
InsideGrid(w) ==
    /\ 0 <= w.r0 /\ w.r1 <= Dimensions(pixelGrid)[1]
    /\ 0 <= w.c0 /\ w.c1 <= Dimensions(pixelGrid)[2]

\* bin a comes before bin b in the row by row order of the bins
BinBefore(a, b) == a[1] < b[1] \/ (a[1] = b[1] /\ a[2] < b[2])

\* of the batch of the call: how many pulses lie in bin b, and how many lie
\* in a bin of the tile that comes before b
BatchIn(b) ==
    Cardinality({i \in Positions(call.pulses) : PulseInBin(At1(call.pulses, i), b[1], b[2])})
BatchBefore(b) ==
    Cardinality({i \in Positions(call.pulses) :
                    \E a \in BinsOf(call.win) :
                       BinBefore(a, b) /\ PulseInBin(At1(call.pulses, i), a[1], a[2])})

\* C18: after setPulsesForExtent for a tile inside the grid, every bin of the
\* tile holds in si_cnt the number of pulses of the batch in that bin, and in
\* si_idx the position of its first pulse in the sorted batch (0 for a bin
\* without pulses) plus lastPulseID.
C18_TileBinsHoldCountAndOffsetStart ==
    (PulsesSet /\ InsideGrid(call.win)) =>
        \A b \in BinsOf(call.win) :
           /\ si_cnt.data[b] = BatchIn(b)
           /\ si_idx.data[b] =
                 (IF BatchIn(b) > 0 THEN BatchBefore(b) ELSE 0) + call.lastPulseID

\* a second tile written with lastPulseID above 0: one of its bins has pulses
\* and another has none and holds lastPulseID as its start
C18_Witness ==
    /\ PulsesSet /\ InsideGrid(call.win)
    /\ call.n = 2
    /\ call.lastPulseID > 0
    /\ \E b \in BinsOf(call.win) : si_cnt.data[b] = 2 /\ si_idx.data[b] = call.lastPulseID
    /\ \E b \in BinsOf(call.win) : si_cnt.data[b] = 0 /\ si_idx.data[b] = call.lastPulseID

\* the bin of the tile of the call in which a pulse record lies
TileBinOf(pl) == CHOOSE b \in BinsOf(call.win) : PulseInBin(pl, b[1], b[2])

\* C19: setPulsesForExtent returns the mask that is true for the pulses of the
\* batch inside the tile, a permutation sortedBins of the positions of those
\* pulses, and the pulses pulses[mask][sortedBins]: the pulses inside the
\* tile, each once, with record k in the bin whose run of the batch index
\* (first position, count) covers position k.
C19_ReturnsBatchInBinOrder ==
    PulsesSet =>
        LET in(i)  == \E b \in BinsOf(call.win) :
                         PulseInBin(At1(call.pulses, i), b[1], b[2])
            nvalid == Cardinality({i \in Positions(call.pulses) : in(i)})
        IN  /\ call.ret.mask.shape = call.pulses.shape
            /\ \A i \in Positions(call.pulses) : At1(call.ret.mask, i) = in(i)
            /\ call.ret.sortedBins \in Permutations1(nvalid)
            /\ call.ret.pulses =
                  Take(Compress(call.pulses, call.ret.mask), call.ret.sortedBins)
            /\ Len1(call.ret.pulses) = nvalid
            /\ \A i \in Positions(call.pulses) :
                  in(i) => Cardinality({k \in Positions(call.ret.pulses) :
                              At1(call.ret.pulses, k) = At1(call.pulses, i)}) = 1
            /\ \A k \in Positions(call.ret.pulses) :
                  /\ BatchBefore(TileBinOf(At1(call.ret.pulses, k))) <= k
                  /\ k < BatchBefore(TileBinOf(At1(call.ret.pulses, k)))
                            + BatchIn(TileBinOf(At1(call.ret.pulses, k)))

\* a batch of two pulses inside the tile that come in falling bin order: they
\* change places
C19_Witness ==
    /\ PulsesSet
    /\ Len1(call.pulses) = 2
    /\ At1(call.ret.mask, 0) /\ At1(call.ret.mask, 1)
    /\ call.ret.sortedBins = Arr1(2, [i \in 0..1 |-> 1 - i])
    /\ At1(call.ret.pulses, 0) = At1(call.pulses, 1)
    /\ At1(call.ret.pulses, 1) = At1(call.pulses, 0)

\* the tiles written so far lie inside the grid and no two of them share a bin
TilesDisjointInside ==
    /\ \A k \in 1..call.n : InsideGrid(script.tiles[k])
    /\ \A k, l \in 1..call.n :
          k # l => BinsOf(script.tiles[k]) \cap BinsOf(script.tiles[l]) = {}

\* the positions of the PULSES dataset that bin b of the persisted index names
RangeOf(b) == si_idx.data[b]..(si_idx.data[b] + si_cnt.data[b] - 1)

\* C20: after createNewIndex and any number of setPulsesForExtent calls for
\* tiles inside the grid that share no bin, each with lastPulseID equal to the
\* number of pulses returned so far, the ranges of any two bins with a count
\* above 0 are disjoint, and the range of each such bin holds, in the returned
\* batches put one after the other, exactly the pulses that lie in the bin.
C20_BinRangesDisjointAndExact ==
    (pc = "indexed" /\ script.running /\ TilesDisjointInside) =>
        /\ \A a, b \in DOMAIN si_cnt.data :
              (a # b /\ si_cnt.data[a] > 0 /\ si_cnt.data[b] > 0) =>
                 RangeOf(a) \cap RangeOf(b) = {}
        /\ \A b \in DOMAIN si_cnt.data :
              si_cnt.data[b] > 0 =>
                 \A p \in Positions(fileHandle.PULSES) :
                    p \in RangeOf(b) <=> PulseInBin(At1(fileHandle.PULSES, p), b[1], b[2])

\* two rows written one after the other, each with pulses: a bin of each row
\* has a count above 0 and the second one starts after the first batch
C20_Witness ==
    /\ PulsesSet /\ call.n = 2
    /\ script.running /\ TilesDisjointInside
    /\ script.tiles[1] # script.tiles[2]
    /\ call.before.nPulses >= 2
    /\ Len1(fileHandle.PULSES) >= 4
    /\ Cardinality({b \in DOMAIN si_cnt.data : si_cnt.data[b] > 0}) >= 3

\* the caller has assigned to an array of the last query
CallerModified == call.name = "getPulsesSpaceForExtent" /\ "original" \in DOMAIN call

\* C21: when the caller has assigned to an element of a returned selection
\* mask, ragged index or validity mask, the next query for the same extent and
\* margin still returns the triple as it was handed out (the arrays returned
\* and the arrays cached are different objects).
C21_ReturnedArraysAreCallersOwn ==
    [][(/\ CallerModified
        /\ call'.name = "getPulsesSpaceForExtent"
        /\ call'.n = call.n + 1
        /\ ExtentEq(call'.extent, call.extent)
        /\ call'.overlap = call.overlap) =>
            call'.ret = call.original]_vars

\* C22: getHandlerForFile, asked for the simple grid, returns None when the
\* file holds no spatial index and the mode is READ, and returns a handler
\* (no None, no error) when the file holds none and the mode is UPDATE or
\* CREATE.
C22_HandlerNoneOnlyWhenReading ==
    (/\ call.name = "getHandlerForFile"
     /\ call.prefType = SPDV4_INDEXTYPE_SIMPLEGRID
     /\ fileHandle.group = "absent") =>
        /\ call.ret.raised = "none"
        /\ (call.mode = "READ") => (call.ret.obj = Null)
        /\ (call.mode # "READ") => (call.ret.obj # Null)

\* C23: constructing the simple grid index in READ or UPDATE mode on a file
\* with a simple grid index fails with LiDARInvalidSetting when INDEX_TYPE is
\* none of CARTESIAN, SPHERICAL and SCAN, and for these three succeeds with the
\* matching pair of pulse columns.
C23_UnsupportedIndexTypeIsInvalidSetting ==
    (/\ call.name = "SPDV4SimpleGridSpatialIndex"
     /\ call.mode \in {"READ", "UPDATE"}
     /\ fileHandle.group = "simplegrid") =>
        IF fileHandle.attrs.INDEX_TYPE \in
              {SPDV4_INDEX_CARTESIAN, SPDV4_INDEX_SPHERICAL, SPDV4_INDEX_SCAN}
        THEN /\ call.ret.raised = "none"
             /\ <<call.ret.obj.si_xPulseColName, call.ret.obj.si_yPulseColName>> =
                  (IF fileHandle.attrs.INDEX_TYPE = SPDV4_INDEX_CARTESIAN
                   THEN <<"X_IDX", "Y_IDX">>
                   ELSE IF fileHandle.attrs.INDEX_TYPE = SPDV4_INDEX_SPHERICAL
                   THEN <<"AZIMUTH", "ZENITH">>
                   ELSE <<"SCANLINE_IDX", "SCANLINE">>)
        ELSE call.ret.raised = "LiDARInvalidSetting"

\* the positions of the points that selectColumns put in the list
Passed(dataArrList) ==
    UNION {{dataArrList[k].data[t].ID : t \in Idx(dataArrList[k].shape)} :
              k \in 1..Len(dataArrList)}

\* the points of the block that lie on the lower edge of the grid, which is
\* the upper edge of the tile below
OnSharedEdge ==
    {i \in Positions(csiArgs.coordOne) :
        /\ At1(csiArgs.coordOne, i) = csiArgs.coordOneMax - csiArgs.nRows * csiArgs.binSize
        /\ At1(csiArgs.coordTwo, i) >= csiArgs.coordTwoMin
        /\ At1(csiArgs.coordTwo, i) < csiArgs.coordTwoMin + csiArgs.nCols * csiArgs.binSize}

\* C24: with the bounds of the grid as bounding box, a point passes the filter
\* of selectColumns exactly when CreateSpatialIndex marks it in-grid; no point
\* passes both the filter of the grid's box and that of the tile below, and a
\* point on their shared edge passes that of the tile below (when it has rows).
C24_BoundingBoxFilterIsGridMask ==
    pc = "selected" =>
        /\ Passed(call.grid) = {i \in Positions(csiArgs.coordOne) : At1(csiRet.validMask, i)}
        /\ Passed(call.grid) \cap Passed(call.below) = {}
        /\ csiArgs.nRows > 0 => OnSharedEdge \subseteq Passed(call.below)
        /\ Passed(call.all) = Positions(csiArgs.coordOne)

\* one point on the upper edge of the grid and one on its lower edge: the
\* first passes the filter of the grid, the second that of the tile below
C24_Witness ==
    /\ pc = "selected"
    /\ csiArgs.nRows > 0 /\ csiArgs.nCols > 0
    /\ Len1(csiArgs.coordOne) = 2
    /\ At1(csiArgs.coordOne, 0) = csiArgs.coordOneMax
    /\ At1(csiArgs.coordTwo, 0) = csiArgs.coordTwoMin
    /\ 1 \in OnSharedEdge
    /\ Passed(call.grid) = {0}
    /\ Passed(call.below) = {1}
    /\ At1(csiRet.validMask, 0) /\ ~At1(csiRet.validMask, 1)

\* what lines 259-262 compute for an extent and a margin from the persisted
\* arrays and the PULSES dataset as they are now
FreshTriple(extent, overlap) ==
    Triple(convertSPDIdxToReadIdxAndMaskInfo(
               getSISubset(pixelGrid, si_cnt, si_idx, extent, overlap).idx_subset,
               getSISubset(pixelGrid, si_cnt, si_idx, extent, overlap).cnt_subset,
               Len1(fileHandle.PULSES)))

\* C25: whatever queries were made before, the triple a pulse query returns
\* for (extent, overlap) is the one a computation for that extent and that
\* overlap gives; two queries in a row for one extent with two margins each
\* get the result for their own margin.
C25_ReturnMatchesExtentAndOverlap ==
    PulsesCalled => call.ret = FreshTriple(call.extent, call.overlap)

\* C26: a pulse query made right after a write returns the triple computed
\* from the persisted arrays and the dataset as they are after the write, also
\* when its extent is the one of the last query before the write. (Queries
\* whose margin is not the one the cached triple was computed for, or whose
\* cached arrays the caller has assigned to, are left aside.)
C26_ReadAfterWriteIsFresh ==
    [][(/\ call.name = "setPulsesForExtent"
        /\ call'.name = "getPulsesSpaceForExtent"
        /\ \/ script.cached = Null
           \/ script.cached.overlap = call'.overlap /\ script.cached.intact) =>
            call'.ret = FreshTriple(call'.extent, call'.overlap)]_vars

\* the number of rows and of columns a slice pair selects
NumRows(sl) == sl.rows.stop - sl.rows.start
NumCols(sl) == sl.cols.stop - sl.cols.start

\* C27: when getSlicesForExtent returns slices, the destination slice and the
\* source slice select the same number of rows and of columns, at least one of
\* each; the destination slice lies in the block of the window with its margin
\* and the source slice in the grid.
C27_SlicesAgreeAndStayInside ==
    (Sliced /\ ~sliceRet.imageSlice.none) =>
        /\ ~sliceRet.siSlice.none
        /\ NumRows(sliceRet.imageSlice) = NumRows(sliceRet.siSlice)
        /\ NumCols(sliceRet.imageSlice) = NumCols(sliceRet.siSlice)
        /\ NumRows(sliceRet.imageSlice) >= 1
        /\ NumCols(sliceRet.imageSlice) >= 1
        /\ 0 <= sliceRet.imageSlice.rows.start
        /\ sliceRet.imageSlice.rows.stop <=
              sliceArgs.win.r1 - sliceArgs.win.r0 + 2 * sliceArgs.overlap
        /\ 0 <= sliceRet.imageSlice.cols.start
        /\ sliceRet.imageSlice.cols.stop <=
              sliceArgs.win.c1 - sliceArgs.win.c0 + 2 * sliceArgs.overlap
        /\ 0 <= sliceRet.siSlice.rows.start
        /\ sliceRet.siSlice.rows.stop <= sliceArgs.siShape[1]
        /\ 0 <= sliceRet.siSlice.cols.start
        /\ sliceRet.siSlice.cols.stop <= sliceArgs.siShape[2]

\* a window that starts inside the grid and ends past its bottom right corner,
\* with a margin: the destination slice starts at the margin and stops short
\* of the end of the block, the source slice stops at the end of the grid
C27_Witness ==
    /\ Sliced /\ ~sliceRet.imageSlice.none
    /\ sliceArgs.overlap = 1
    /\ sliceArgs.siShape = <<3, 3>>
    /\ sliceArgs.win = [r0 |-> 2, r1 |-> 4, c0 |-> 1, c1 |-> 4]
    /\ sliceRet.imageSlice = SlicePair(0, 2, 0, 3)
    /\ sliceRet.siSlice = SlicePair(1, 3, 0, 3)

\* C28: for an index whose runs end inside the dataset (runs of different
\* bins may overlap), the converter makes no access outside its arrays: the
\* slot counter of a bin is below maxCount whenever it is used as first index
\* of outIdx and outMask and ends at most at count[bin], and the running
\* counter ends at the number of True entries of the selection mask.
C28_ConverterStaysInsideItsArrays ==
    (Converted /\ ConvNdim \in {1, 2}) =>
        /\ convRet.raised = "none"
        /\ \A b \in ConvBins :
              /\ convRet.counts.data[b] <= convArgs.count_array.data[b]
              /\ convRet.counts.data[b] <= convRet.outIdx.shape[1]
        /\ convRet.counter = TrueBefore(convRet.outBool, Len1(convRet.outBool))

\* two bins of a 2d index whose runs overlap: one of them ends with fewer
\* slots filled than its count
C28_Witness ==
    /\ Converted /\ ConvNdim = 2
    /\ ~DisjointRuns
    /\ convRet.raised = "none"
    /\ \E b \in ConvBins :
          /\ convRet.counts.data[b] > 0
          /\ convRet.counts.data[b] < convArgs.count_array.data[b]
    /\ convRet.counter = 3

\* the bins of the grid that the tile of the call covers
GridBinsOfTile == BinsOf(call.win) \cap DOMAIN si_cnt.data

\* the sum of the persisted counts over the bins of the grid the tile covers
CountsWritten ==
    Cardinality(UNION {{<<b, k>> : k \in 1..si_cnt.data[b]} : b \in GridBinsOfTile})

\* C29: after every setPulsesForExtent call, whatever the tile extent, the
\* counts written into the persisted si_cnt for the call add up to the number
\* of records returned.
C29_EveryReturnedRecordIsIndexed ==
    PulsesSet => CountsWritten = Len1(call.ret.pulses)

\* C30: setPulsesForExtent leaves si_cnt and si_idx as they were at every bin
\* outside the tile; for a tile that covers no bin of the grid both arrays are
\* as they were, and the batch is still masked, sorted and returned.
C30_WritesOnlyInsideTheTile ==
    PulsesSet =>
        /\ si_cnt.shape = call.before.si_cnt.shape
        /\ si_idx.shape = call.before.si_idx.shape
        /\ \A b \in DOMAIN si_cnt.data \ BinsOf(call.win) :
              /\ si_cnt.data[b] = call.before.si_cnt.data[b]
              /\ si_idx.data[b] = call.before.si_idx.data[b]
        /\ GridBinsOfTile = {} =>
              /\ si_cnt = call.before.si_cnt
              /\ si_idx = call.before.si_idx
        /\ Len1(call.ret.mask) = Len1(call.pulses)
        /\ \A i \in Positions(call.pulses) :
              At1(call.ret.mask, i) <=>
                  \E b \in BinsOf(call.win) : PulseInBin(At1(call.pulses, i), b[1], b[2])
        /\ Len1(call.ret.sortedBins) = TrueBefore(call.ret.mask, Len1(call.ret.mask))
        /\ call.ret.pulses = Reorder(call.pulses, call.ret.mask, call.ret.sortedBins)

\* the second tile is written with pulses while a bin of the first tile holds
\* a pulse: that bin is as it was, a bin of the second tile has changed
C30_Witness ==
    /\ PulsesSet /\ call.n = 2
    /\ \E b \in DOMAIN si_cnt.data \ BinsOf(call.win) :
          call.before.si_cnt.data[b] > 0 /\ si_cnt.data[b] = call.before.si_cnt.data[b]
    /\ \E b \in GridBinsOfTile : si_cnt.data[b] # call.before.si_cnt.data[b]
    /\ \E b \in GridBinsOfTile : si_idx.data[b] # call.before.si_idx.data[b]

====
